---------------------------- MODULE Spec2Model ----------------------------
(***************************************************************************)
(* A model of the ojp-rs response normalisation pipeline                   *)
(* (src/src/model.rs): the duration codec, the stop identifier normaliser, *)
(* the leg resolver and the trip simplifier.                               *)
(*                                                                         *)
(* Texts are sequences of one-character strings, so that prefix stripping, *)
(* splitting and digit parsing are computed as the code computes them.     *)
(* Times are seconds; a Duration is a signed number of seconds.            *)
(***************************************************************************)
EXTENDS Integers, Sequences, FiniteSets, TLC

VARIABLES
    \* duration::deserialize
    dtext,                \* the text being decoded (String s)
    dpc,                  \* "start" | "loop" | "done"
    drest,                \* the characters s.chars() has not yielded yet
    dsign,                \* sign (1 or -1)
    total_seconds,        \* total_seconds
    current_number_str,   \* current_number_str
    dres,                 \* the Result returned, NoResult until then
    \* LegBoard::id, LegAlight::id, LegEndpoint::id
    nkind,                \* which of the three id methods is called
    nref,                 \* stop_point_ref
    npc,                  \* "start" | "done"
    nres,                 \* the Result returned, NoResult until then
    \* LegType::try_from and the accessors of LegType
    rleg,                 \* the Leg record resolved
    rpc,                  \* "start" | "resolved" | "done"
    rview,                \* the Result of LegType::try_from
    rcap,                 \* what the accessors of the view return
    \* SimplifiedTrip::try_from
    trip,                 \* the Trip simplified (value)
    spc,                  \* "start" | "loop" | "done"
    si,                   \* the number of legs the iterator has yielded
    prev_arr_time,        \* prev_arr_time
    st,                   \* the SimplifiedLegs collected so far
    sres,                 \* the Result returned, NoResult until then
    sacc,                 \* what the accessors of the SimplifiedTrip return
    sfirst,               \* the Result of an earlier call on the same Trip
    \* the query helpers of OJP: trips, trips_departing_after,
    \* trip_departing_after, place_results, error, and the tail of find_location
    ojp,                  \* the parsed response (self)
    qop,                  \* which helper is called
    qdate,                \* date_time
    qindex,               \* index
    qpc,                  \* "start" | "done"
    qres,                 \* what the helper returns, NoResult until then
    \* OJP::find_trip
    from_id,              \* from_id
    to_id,                \* to_id
    fdate,                \* date_time
    number_results,       \* number_results
    token_env,            \* the environment variable api_key names, if set
    http,                 \* what the HTTP exchange gives: an error or a text
    fpc,                  \* "start" | "received" | "parsed" | "checked" | "selected" | "done"
    fojp,                 \* ojp, once parsed
    fmsg,                 \* msg: what ojp.error() returned
    ref_trip,             \* ref_trip, once selected
    ffiles,               \* the debug files written
    fres,                 \* the Result returned, NoResult until then
    \* SimplifiedTrip::try_from in several tasks; each variable maps a task
    \* to what is local to its call
    ctrip,                \* the Trip the task simplifies
    cpc,                  \* "start" | "loop" | "done"
    ci,                   \* the number of legs its iterator has yielded
    cprev,                \* its prev_arr_time
    cst,                  \* the SimplifiedLegs it has collected
    cres,                 \* the Result it returns, NoResult until then
    \* OJP::find_trips
    departures,           \* departures
    arrivals,             \* arrivals
    jdate,                \* date_time
    jnumber,              \* number_results
    jtoken,               \* the environment variable api_key names
    jhttp,                \* per search, what its HTTP exchange gives
    jwritable,            \* whether the debug files can be created
    jpc,                  \* per search, "start" | "sent" | "done"
    jout,                 \* per search, the Result of its find_trip
    jorder,               \* the searches in the order they completed
    jfiles,               \* the debug files written
    jres,                 \* what find_trips returns, NoResult until then
    \* SimplifiedTrip::approx_equal
    aself,                \* self
    arhs,                 \* rhs
    tolerance,            \* tolerance, as a fraction
    apc,                  \* "start" | "done"
    ares,                 \* what the call returns or its panic, NoResult until then
    \* RequestBuilder
    builder,              \* the RequestBuilder value
    bcall,                \* the last method called on it, with its argument
    bpc,                  \* "building" | "done"
    bres,                 \* the Result of build_request, NoResult until then
    \* duration::deserialize with total_seconds at its i64 width
    wtext,                \* the text being decoded (String s)
    wchecks,              \* whether the build has overflow checks (debug) or wraps
    wpc,                  \* "start" | "loop" | "done"
    wrest,                \* the characters s.chars() has not yielded yet
    wsign,                \* sign (1 or -1)
    wtotal,               \* total_seconds, an i64
    wcur,                 \* current_number_str
    wres                  \* what the call returns or its panic, NoResult until then

decodeVars == <<dtext, dpc, drest, dsign, total_seconds, current_number_str, dres>>
normalizeVars == <<nkind, nref, npc, nres>>
resolveVars == <<rleg, rpc, rview, rcap>>
simplifyVars == <<trip, spc, si, prev_arr_time, st, sres, sacc, sfirst>>
queryVars == <<ojp, qop, qdate, qindex, qpc, qres>>
findTripVars == <<from_id, to_id, fdate, number_results, token_env, http, fpc, fojp, fmsg, ref_trip, ffiles, fres>>

concurrentVars == <<ctrip, cpc, ci, cprev, cst, cres>>
findTripsVars == <<departures, arrivals, jdate, jnumber, jtoken, jhttp, jwritable, jpc, jout, jorder, jfiles, jres>>
approxEqualVars == <<aself, arhs, tolerance, apc, ares>>
requestBuilderVars == <<builder, bcall, bpc, bres>>
decodeWideVars == <<wtext, wchecks, wpc, wrest, wsign, wtotal, wcur, wres>>
vars == <<decodeVars, normalizeVars, resolveVars, simplifyVars, queryVars, findTripVars, concurrentVars, findTripsVars, approxEqualVars, requestBuilderVars, decodeWideVars>>

\* what each component leaves alone
notDecodeVars == <<normalizeVars, resolveVars, simplifyVars, queryVars, findTripVars, concurrentVars, findTripsVars, approxEqualVars, requestBuilderVars, decodeWideVars>>
notNormalizeVars == <<decodeVars, resolveVars, simplifyVars, queryVars, findTripVars, concurrentVars, findTripsVars, approxEqualVars, requestBuilderVars, decodeWideVars>>
notResolveVars == <<decodeVars, normalizeVars, simplifyVars, queryVars, findTripVars, concurrentVars, findTripsVars, approxEqualVars, requestBuilderVars, decodeWideVars>>
notSimplifyVars == <<decodeVars, normalizeVars, resolveVars, queryVars, findTripVars, concurrentVars, findTripsVars, approxEqualVars, requestBuilderVars, decodeWideVars>>
notQueryVars == <<decodeVars, normalizeVars, resolveVars, simplifyVars, findTripVars, concurrentVars, findTripsVars, approxEqualVars, requestBuilderVars, decodeWideVars>>
notFindTripVars == <<decodeVars, normalizeVars, resolveVars, simplifyVars, queryVars, concurrentVars, findTripsVars, approxEqualVars, requestBuilderVars, decodeWideVars>>
notConcurrentVars == <<decodeVars, normalizeVars, resolveVars, simplifyVars, queryVars, findTripVars, findTripsVars, approxEqualVars, requestBuilderVars, decodeWideVars>>
notFindTripsVars == <<decodeVars, normalizeVars, resolveVars, simplifyVars, queryVars, findTripVars, concurrentVars, approxEqualVars, requestBuilderVars, decodeWideVars>>
notApproxEqualVars == <<decodeVars, normalizeVars, resolveVars, simplifyVars, queryVars, findTripVars, concurrentVars, findTripsVars, requestBuilderVars, decodeWideVars>>
notRequestBuilderVars == <<decodeVars, normalizeVars, resolveVars, simplifyVars, queryVars, findTripVars, concurrentVars, findTripsVars, approxEqualVars, decodeWideVars>>
notDecodeWideVars == <<decodeVars, normalizeVars, resolveVars, simplifyVars, queryVars, findTripVars, concurrentVars, findTripsVars, approxEqualVars, requestBuilderVars>>

\* a Result not returned yet
NoResult == [pending |-> TRUE]

\* Option<T>
None == [some |-> FALSE]
Some(v) == [some |-> TRUE, val |-> v]

(***************************************************************************)
(* Characters and texts                                                    *)
(***************************************************************************)
DigitChars == {"0", "1", "2", "3", "4", "5", "6", "7", "8", "9"}

\* char::is_ascii_digit
IsAsciiDigit(c) == c \in DigitChars

DigitVal(c) ==
    CASE c = "0" -> 0 [] c = "1" -> 1 [] c = "2" -> 2 [] c = "3" -> 3
      [] c = "4" -> 4 [] c = "5" -> 5 [] c = "6" -> 6 [] c = "7" -> 7
      [] c = "8" -> 8 [] c = "9" -> 9

\* All sequences over S of length at most n
RECURSIVE SeqsUpTo(_, _)
SeqsUpTo(S, n) ==
    IF n = 0 THEN {<<>>}
    ELSE LET shorter == SeqsUpTo(S, n - 1)
         IN  shorter \cup {Append(s, c) : s \in shorter, c \in S}

\* str::starts_with
StartsWith(s, p) == Len(s) >= Len(p) /\ SubSeq(s, 1, Len(p)) = p

\* str::strip_prefix: the rest of s after p, or None
StripPrefixStr(s, p) ==
    IF StartsWith(s, p) THEN Some(SubSeq(s, Len(p) + 1, Len(s))) ELSE None

(***************************************************************************)
(* Duration codec: duration::deserialize                                   *)
(***************************************************************************)
\* Bounds of the decoded texts
MaxBody == 4

BodyChars == {"0", "1", "5", "H", "M", "S", "X"}

Prefixes == { <<"P", "T">>, <<"-", "P", "T">>, <<>>, <<"P">>,
              <<"-", "T">>, <<"+", "P", "T">> }

\* Longer texts of the documented examples
ExampleTexts ==
    { <<"P", "T", "1", "H", "3", "0", "M">>,
      <<"-", "P", "T", "4", "5", "S">>,
      <<"P", "T", "3", "0", "M", "3", "0", "M">>,
      <<"P", "T", "5", "S", "1", "H">>,
      <<"P", "T", "1", "H", "3", "0">>,
      <<"5", "H">>,
      <<"P", "T", "2", "H", "3", "M", "4", "S">> }

DecodeTexts ==
    {p \o b : p \in Prefixes, b \in SeqsUpTo(BodyChars, MaxBody)} \cup ExampleTexts

DOk(secs) == [ok |-> TRUE, secs |-> secs]
DErr(why) == [ok |-> FALSE, err |-> why]

\* i64::from_str on a non-empty string of ASCII digits
RECURSIVE I64FromStr(_)
I64FromStr(ds) ==
    IF ds = <<>> THEN 0
    ELSE 10 * I64FromStr(SubSeq(ds, 1, Len(ds) - 1)) + DigitVal(ds[Len(ds)])

\* the (sign, s) pair of the prefix match, or None
SplitSign(s) ==
    IF StripPrefixStr(s, <<"P", "T">>).some
    THEN Some([sign |-> 1, rest |-> StripPrefixStr(s, <<"P", "T">>).val])
    ELSE IF StripPrefixStr(s, <<"-", "P", "T">>).some
    THEN Some([sign |-> -1, rest |-> StripPrefixStr(s, <<"-", "P", "T">>).val])
    ELSE None

\* UnitSeconds with the minute arm adding the hour factor
UnitSecondsMinuteAsHour(c) ==
    CASE c = "H" -> Some(3600)
      [] c = "M" -> Some(3600)
      [] c = "S" -> Some(1)
      [] OTHER -> None

\* the seconds one unit stands for, or None for a character that is no unit
UnitSeconds(c) ==
    CASE c = "H" -> Some(3600)
      [] c = "M" -> Some(60)
      [] c = "S" -> Some(1)
      [] OTHER -> None

\* what one group adds to total_seconds
GroupSeconds(sign, value, c) == sign * value * UnitSeconds(c).val

\* EndsWithNumber with the check left out
EndsWithNumberUnchecked(cur) == FALSE

\* EndsWithNumber with the condition inverted
EndsWithNumberInverted(cur) == cur = <<>>

\* the check after the loop: digits left without a unit
EndsWithNumber(cur) == cur # <<>>

InitDecode ==
    /\ dtext \in DecodeTexts
    /\ dpc = "start"
    /\ drest = <<>>
    /\ dsign = 1
    /\ total_seconds = 0
    /\ current_number_str = <<>>
    /\ dres = NoResult

\* lines 123-135: the prefix match and the locals' initial values
DecodePrefix ==
    /\ dpc = "start"
    /\ IF ~SplitSign(dtext).some
       THEN /\ dpc' = "done"
            /\ dres' = DErr("prefix")
            /\ UNCHANGED <<drest, dsign>>
       ELSE /\ dpc' = "loop"
            /\ dsign' = SplitSign(dtext).val.sign
            /\ drest' = SplitSign(dtext).val.rest
            /\ UNCHANGED dres
    /\ total_seconds' = 0
    /\ current_number_str' = <<>>
    /\ UNCHANGED <<dtext, notDecodeVars>>

\* lines 137-156: one iteration of the loop over s.chars()
DecodeChar ==
    /\ dpc = "loop"
    /\ drest # <<>>
    /\ LET c == Head(drest) IN
       IF IsAsciiDigit(c)
       THEN /\ current_number_str' = Append(current_number_str, c)
            /\ drest' = Tail(drest)
            /\ UNCHANGED <<dpc, total_seconds, dres>>
       ELSE IF current_number_str = <<>>
       THEN /\ dpc' = "done"
            /\ dres' = DErr("no_number")
            /\ UNCHANGED <<drest, total_seconds, current_number_str>>
       ELSE IF ~UnitSeconds(c).some
       THEN /\ dpc' = "done"
            /\ dres' = DErr("unit")
            /\ UNCHANGED <<drest, total_seconds, current_number_str>>
       ELSE /\ total_seconds' =
                  total_seconds + GroupSeconds(dsign, I64FromStr(current_number_str), c)
            /\ current_number_str' = <<>>
            /\ drest' = Tail(drest)
            /\ UNCHANGED <<dpc, dres>>
    /\ UNCHANGED <<dtext, dsign, notDecodeVars>>

\* lines 158-164: after the loop
DecodeEnd ==
    /\ dpc = "loop"
    /\ drest = <<>>
    /\ dpc' = "done"
    /\ dres' = IF EndsWithNumber(current_number_str)
               THEN DErr("trailing_number")
               ELSE DOk(total_seconds)
    /\ UNCHANGED <<dtext, drest, dsign, total_seconds, current_number_str,
                   notDecodeVars>>

\* no decoding under way
IdleDecode ==
    /\ dtext = <<>>
    /\ dpc = "idle"
    /\ drest = <<>>
    /\ dsign = 1
    /\ total_seconds = 0
    /\ current_number_str = <<>>
    /\ dres = NoResult

NextDecode == DecodePrefix \/ DecodeChar \/ DecodeEnd

(***************************************************************************)
(* Claims about the duration codec, checked under SpecDecode               *)
(***************************************************************************)
TextPT == <<"P", "T">>
TextMinusPT == <<"-", "P", "T">>
UnitChars == {"H", "M", "S"}

\* the text has one of the two accepted prefixes
HasPrefix(t) == StartsWith(t, TextPT) \/ StartsWith(t, TextMinusPT)

\* what follows the prefix
BodyOf(t) ==
    IF StartsWith(t, TextPT) THEN SubSeq(t, 3, Len(t)) ELSE SubSeq(t, 4, Len(t))

SignOf(t) == IF StartsWith(t, TextMinusPT) THEN -1 ELSE 1

\* the number of digits the text starts with
RECURSIVE LeadingDigits(_)
LeadingDigits(b) ==
    IF b # <<>> /\ b[1] \in DigitChars THEN 1 + LeadingDigits(Tail(b)) ELSE 0

RECURSIVE Pow10(_)
Pow10(n) == IF n = 0 THEN 1 ELSE 10 * Pow10(n - 1)

\* the decimal number a digit string denotes, most significant digit first
RECURSIVE DecimalValue(_)
DecimalValue(ds) ==
    IF ds = <<>> THEN 0
    ELSE DigitVal(ds[1]) * Pow10(Len(ds) - 1) + DecimalValue(Tail(ds))

\* the body is a sequence of <digits><unit> groups
RECURSIVE IsGroups(_)
IsGroups(b) ==
    \/ b = <<>>
    \/ LET k == LeadingDigits(b) IN
         /\ k >= 1
         /\ Len(b) > k
         /\ b[k + 1] \in UnitChars
         /\ IsGroups(SubSeq(b, k + 2, Len(b)))

FactorOf(u) == IF u = "H" THEN 3600 ELSE IF u = "M" THEN 60 ELSE 1

\* the sum of digits x factor over the groups of a body
RECURSIVE GroupsSum(_)
GroupsSum(b) ==
    IF b = <<>> THEN 0
    ELSE LET k == LeadingDigits(b) IN
         DecimalValue(SubSeq(b, 1, k)) * FactorOf(b[k + 1])
           + GroupsSum(SubSeq(b, k + 2, Len(b)))

DecodedAs(t, secs) == dpc = "done" /\ dtext = t => dres = DOk(secs)

\* C7: for a text that is PT or -PT followed by <digits><unit> groups, Decode
\* returns sign x the sum of digits x (3600 | 60 | 1) over all groups, in any
\* order and with repeated units; PT1H30M = 5400 s, -PT45S = -45 s,
\* PT30M30M = 3600 s, PT5S1H = 3605 s.
C7_DecodeValue ==
    /\ dpc = "done" /\ HasPrefix(dtext) /\ IsGroups(BodyOf(dtext))
         => dres = DOk(SignOf(dtext) * GroupsSum(BodyOf(dtext)))
    /\ DecodedAs(<<"P", "T", "1", "H", "3", "0", "M">>, 5400)
    /\ DecodedAs(<<"-", "P", "T", "4", "5", "S">>, -45)
    /\ DecodedAs(<<"P", "T", "3", "0", "M", "3", "0", "M">>, 3600)
    /\ DecodedAs(<<"P", "T", "5", "S", "1", "H">>, 3605)

C7_Witness ==
    /\ dpc = "done"
    /\ dtext = <<"P", "T", "3", "0", "M", "3", "0", "M">>
    /\ dres = DOk(3600)

\* a non-digit character of the body with no digit right before it
UnitWithoutDigits(b) ==
    \E i \in 1..Len(b) :
        /\ b[i] \notin DigitChars
        /\ (i = 1 \/ b[i - 1] \notin DigitChars)

\* the text ends with digits that no unit follows
TrailingDigits(b) == b # <<>> /\ b[Len(b)] \in DigitChars

\* C8: Decode fails with a format error when the text begins with neither PT
\* nor -PT, when after the prefix a non-digit character occurs with no digits
\* collected before it, and when digits are left at the end with no unit.
C8_DecodeFails ==
    dpc = "done" =>
        /\ ~HasPrefix(dtext) => dres = DErr("prefix")
        /\ HasPrefix(dtext) /\ UnitWithoutDigits(BodyOf(dtext)) => ~dres.ok
        /\ HasPrefix(dtext) /\ TrailingDigits(BodyOf(dtext)) => ~dres.ok

C8_Witness ==
    /\ dpc = "done"
    /\ dtext = <<"P", "T", "1", "H", "3", "0">>
    /\ dres = DErr("trailing_number")

\* C9 as stated: decode("PT") fails with a format error.
C9_BarePrefixFails == dpc = "done" /\ dtext = TextPT => ~dres.ok

\* C9 as amended: decode("PT"), the bare prefix with no groups, returns the
\* zero Duration.
C9_BarePrefixIsZero == dpc = "done" /\ dtext = TextPT => dres = DOk(0)

C9_Witness == dpc = "done" /\ dtext = TextPT /\ dres.ok

(***************************************************************************)
(* Stop identifier normaliser: LegBoard::id, LegAlight::id,                *)
(* LegEndpoint::id, sloid_to_didok, iso_to_uic                             *)
(***************************************************************************)
ROk(v) == [ok |-> TRUE, val |-> v]
RErr(e) == [ok |-> FALSE, err |-> e]

\* OjpError values; arg is a text (or the empty text)
OjpErr(kind, arg) == [kind |-> kind, arg |-> arg]
MalformedSloid(sloid) == OjpErr("MalformedSloid", sloid)
FailedToConvertIsoCode(iso) == OjpErr("FailedToConvertIsoCode", iso)
ParseInt(why) == OjpErr("ParseInt", <<why>>)
UnkownLegType == OjpErr("UnkownLegType", <<>>)

\* the largest i32
I32Max == 2147483647

\* str::parse::<i32> after the sign: the digits are added to (or, for a
\* negative number, subtracted from) acc, checked against the i32 range
RECURSIVE ParseDigits(_, _, _)
ParseDigits(ds, acc, neg) ==
    IF ds = <<>> THEN ROk(acc)
    ELSE IF ~IsAsciiDigit(ds[1]) THEN RErr("InvalidDigit")
    ELSE LET d == DigitVal(ds[1]) IN
         IF neg
         THEN IF \/ acc < -(I32Max \div 10)
                 \/ (acc = -(I32Max \div 10) /\ d > (I32Max % 10) + 1)
              THEN RErr("NegOverflow")
              ELSE ParseDigits(Tail(ds), acc * 10 - d, neg)
         ELSE IF \/ acc > I32Max \div 10
                 \/ (acc = I32Max \div 10 /\ d > I32Max % 10)
              THEN RErr("PosOverflow")
              ELSE ParseDigits(Tail(ds), acc * 10 + d, neg)

\* str::parse::<i32>
ParseI32(s) ==
    IF s = <<>> THEN RErr("Empty")
    ELSE IF s = <<"+">> \/ s = <<"-">> THEN RErr("InvalidDigit")
    ELSE IF s[1] = "+" THEN ParseDigits(Tail(s), 0, FALSE)
    ELSE IF s[1] = "-" THEN ParseDigits(Tail(s), 0, TRUE)
    ELSE ParseDigits(s, 0, FALSE)

DigitChar(d) == <<"0", "1", "2", "3", "4", "5", "6", "7", "8", "9">>[d + 1]

\* the decimal digits of n >= 0
RECURSIVE NatDigits(_)
NatDigits(n) ==
    IF n < 10 THEN <<DigitChar(n)>>
    ELSE Append(NatDigits(n \div 10), DigitChar(n % 10))

\* the decimal digits of the magnitude of n < 0
RECURSIVE NegDigits(_)
NegDigits(n) ==
    LET d == (10 - (n % 10)) % 10
        rest == (n + d) \div 10
    IN  IF rest = 0 THEN <<DigitChar(d)>>
        ELSE Append(NegDigits(rest), DigitChar(d))

RECURSIVE ZeroPad(_, _)
ZeroPad(ds, width) ==
    IF Len(ds) >= width THEN ds ELSE ZeroPad(<<"0">> \o ds, width)

\* format!("{}", n)
Display(n) == IF n >= 0 THEN NatDigits(n) ELSE <<"-">> \o NegDigits(n)

\* format!("{:05}", n): zero padded to five characters, the sign included
Pad05(n) ==
    IF n >= 0 THEN ZeroPad(NatDigits(n), 5)
    ELSE <<"-">> \o ZeroPad(NegDigits(n), 4)

\* str::split(':'): the parts between the colons, at least one
RECURSIVE SplitColon(_)
SplitColon(s) ==
    IF s = <<>> THEN << <<>> >>
    ELSE LET rest == SplitColon(Tail(s)) IN
         IF s[1] = ":" THEN << <<>> >> \o rest
         ELSE << <<s[1]>> \o rest[1] >> \o Tail(rest)

\* char::to_lowercase of an ASCII character
LowerChar(c) ==
    CASE c = "A" -> "a" [] c = "B" -> "b" [] c = "C" -> "c" [] c = "D" -> "d"
      [] c = "E" -> "e" [] c = "F" -> "f" [] c = "G" -> "g" [] c = "H" -> "h"
      [] c = "I" -> "i" [] c = "J" -> "j" [] c = "K" -> "k" [] c = "L" -> "l"
      [] c = "M" -> "m" [] c = "N" -> "n" [] c = "O" -> "o" [] c = "P" -> "p"
      [] c = "Q" -> "q" [] c = "R" -> "r" [] c = "S" -> "s" [] c = "T" -> "t"
      [] c = "U" -> "u" [] c = "V" -> "v" [] c = "W" -> "w" [] c = "X" -> "x"
      [] c = "Y" -> "y" [] c = "Z" -> "z" [] OTHER -> c

\* str::to_lowercase
ToLowercase(s) == [i \in 1..Len(s) |-> LowerChar(s[i])]

\* the text as one string
RECURSIVE StrOf(_)
StrOf(s) == IF s = <<>> THEN "" ELSE s[1] \o StrOf(Tail(s))

\* the arms of the match in iso_to_uic
IsoUicTable ==
    { <<"fi", 10>>, <<"ru", 20>>, <<"by", 21>>, <<"ua", 22>>, <<"md", 23>>,
      <<"lt", 24>>, <<"lv", 25>>, <<"ee", 26>>, <<"kz", 27>>, <<"ge", 28>>,
      <<"uz", 29>>, <<"kp", 30>>, <<"mn", 31>>, <<"nn", 32>>, <<"cn", 33>>,
      <<"la", 34>>, <<"cu", 40>>, <<"al", 41>>, <<"jp", 42>>, <<"ba", 44>>,
      <<"pl", 51>>, <<"bg", 52>>, <<"ro", 53>>, <<"cz", 54>>, <<"hu", 55>>,
      <<"sk", 56>>, <<"az", 57>>, <<"am", 58>>, <<"kg", 59>>, <<"ie", 60>>,
      <<"kr", 61>>, <<"me", 62>>, <<"mk", 65>>, <<"tj", 66>>, <<"tm", 67>>,
      <<"af", 68>>, <<"gb", 70>>, <<"es", 71>>, <<"rs", 72>>, <<"gr", 73>>,
      <<"se", 74>>, <<"tr", 75>>, <<"no", 76>>, <<"hr", 78>>, <<"si", 79>>,
      <<"de", 80>>, <<"at", 81>>, <<"lu", 82>>, <<"it", 83>>, <<"nl", 84>>,
      <<"ch", 85>>, <<"dk", 86>>, <<"fr", 87>>, <<"be", 88>>, <<"tz", 89>>,
      <<"eg", 90>>, <<"tn", 91>>, <<"dz", 92>>, <<"ma", 93>>, <<"pt", 94>>,
      <<"il", 95>>, <<"ir", 96>>, <<"sy", 97>>, <<"lb", 98>>, <<"iq", 99>> }

\* iso_to_uic
IsoToUic(iso) ==
    LET key == StrOf(ToLowercase(iso)) IN
    IF \E e \in IsoUicTable : e[1] = key
    THEN Some((CHOOSE e \in IsoUicTable : e[1] = key)[2])
    ELSE None

\* sloid_to_didok with the number formatted as {} instead of {:05}
SloidToDidokNoPad(sloid) ==
    LET parts == SplitColon(sloid) IN
    IF Len(parts) < 4 THEN RErr(MalformedSloid(sloid))
    ELSE
    LET iso == ToLowercase(parts[1])
        uic == IsoToUic(iso)
    IN
    IF ~uic.some THEN RErr(FailedToConvertIsoCode(iso))
    ELSE
    LET num == ParseI32(parts[4]) IN
    IF ~num.ok THEN RErr(ParseInt(num.err))
    ELSE
    LET didok == ParseI32(Display(uic.val) \o Display(num.val)) IN
    IF ~didok.ok THEN RErr(ParseInt(didok.err))
    ELSE ROk(didok.val)

\* sloid_to_didok with the country looked up before the parts are counted
SloidToDidokLookupFirst(sloid) ==
    LET parts == SplitColon(sloid)
        iso == ToLowercase(parts[1])
        uic == IsoToUic(iso)
    IN
    IF ~uic.some THEN RErr(FailedToConvertIsoCode(iso))
    ELSE IF Len(parts) < 4 THEN RErr(MalformedSloid(sloid))
    ELSE
    LET num == ParseI32(parts[4]) IN
    IF ~num.ok THEN RErr(ParseInt(num.err))
    ELSE
    LET didok == ParseI32(Display(uic.val) \o Pad05(num.val)) IN
    IF ~didok.ok THEN RErr(ParseInt(didok.err))
    ELSE ROk(didok.val)

\* sloid_to_didok with a part 3 that does not parse reported as MalformedSloid
SloidToDidokMalformedNumber(sloid) ==
    LET parts == SplitColon(sloid) IN
    IF Len(parts) < 4 THEN RErr(MalformedSloid(sloid))
    ELSE
    LET iso == ToLowercase(parts[1])
        uic == IsoToUic(iso)
    IN
    IF ~uic.some THEN RErr(FailedToConvertIsoCode(iso))
    ELSE
    LET num == ParseI32(parts[4]) IN
    IF ~num.ok THEN RErr(MalformedSloid(sloid))
    ELSE
    LET didok == ParseI32(Display(uic.val) \o Pad05(num.val)) IN
    IF ~didok.ok THEN RErr(ParseInt(didok.err))
    ELSE ROk(didok.val)

\* sloid_to_didok
SloidToDidok(sloid) ==
    LET parts == SplitColon(sloid) IN
    IF Len(parts) < 4 THEN RErr(MalformedSloid(sloid))
    ELSE
    LET iso == ToLowercase(parts[1])
        uic == IsoToUic(iso)
    IN
    IF ~uic.some THEN RErr(FailedToConvertIsoCode(iso))
    ELSE
    LET num == ParseI32(parts[4]) IN
    IF ~num.ok THEN RErr(ParseInt(num.err))
    ELSE
    LET didok == ParseI32(Display(uic.val) \o Pad05(num.val)) IN
    IF ~didok.ok THEN RErr(ParseInt(didok.err))
    ELSE ROk(didok.val)

\* LegEndpoint::id with the direct integer parse left out
LegEndpointIdSloidOnly(stop_point_ref) == SloidToDidok(stop_point_ref)

\* LegEndpoint::id
LegEndpointId(stop_point_ref) ==
    LET num == ParseI32(stop_point_ref) IN
    IF num.ok THEN ROk(num.val) ELSE SloidToDidok(stop_point_ref)

\* LegBoard::id
LegBoardId(stop_point_ref) ==
    LET num == ParseI32(stop_point_ref) IN
    IF num.ok THEN ROk(num.val) ELSE SloidToDidok(stop_point_ref)

\* LegAlight::id
LegAlightId(stop_point_ref) ==
    LET num == ParseI32(stop_point_ref) IN
    IF num.ok THEN ROk(num.val) ELSE SloidToDidok(stop_point_ref)

\* Bound of the structured references: the number of ':'-separated parts
MaxParts == 5

IsoParts ==
    { <<"c", "h">>, <<"C", "H">>, <<"c", "H">>, <<"d", "e">>, <<"f", "r">>,
      <<"x", "x">>, <<"8", "5">>, <<>> }

NumParts ==
    { <<"7", "0", "0", "0">>, <<"0", "7", "0", "0", "0">>, <<"0">>,
      <<"9", "9", "9", "9", "9">>, <<"1", "0", "0", "0", "0", "0">>,
      <<"-", "5">>, <<"a", "b", "c">>, <<>>, <<"+", "7">>, <<"2", "1", "4", "7", "4", "8", "3", "6", "4", "7">>,
      <<"9", "9", "9", "9", "9", "9", "9", "9">>, <<"3", "0", "0", "0">> }

PlainRefs ==
    { <<"8", "5", "0", "3", "0", "0", "0">>, <<"0">>, <<"-", "5">>,
      <<"+", "8", "5">>, <<"2", "1", "4", "7", "4", "8", "3", "6", "4", "7">>,
      <<"2", "1", "4", "7", "4", "8", "3", "6", "4", "8">>,
      <<"-", "2", "1", "4", "7", "4", "8", "3", "6", "4", "8">>,
      <<"-", "2", "1", "4", "7", "4", "8", "3", "6", "4", "9">>,
      <<>>, <<"8", "5", "a">>, <<"0", "0", "8", "5">>, <<"-">>, <<"8", "5", "0", "3", "0", "0", "1">> }

\* the texts tried as the i-th part of a structured reference
PartsAt(i) ==
    CASE i = 1 -> IsoParts
      [] i = 2 -> { <<"1">> }
      [] i = 3 -> { <<"s", "l", "o", "i", "d">> }
      [] i = 4 -> NumParts
      [] OTHER -> { <<"0">> }

RECURSIVE PartSeqs(_)
PartSeqs(k) ==
    IF k = 0 THEN {<<>>}
    ELSE {Append(ps, p) : ps \in PartSeqs(k - 1), p \in PartsAt(k)}

RECURSIVE JoinColon(_)
JoinColon(ps) ==
    IF Len(ps) = 1 THEN ps[1] ELSE ps[1] \o <<":">> \o JoinColon(Tail(ps))

StopPointRefs ==
    PlainRefs \cup UNION {{JoinColon(ps) : ps \in PartSeqs(k)} : k \in 1..MaxParts}

IdKinds == {"board", "alight", "endpoint"}

InitNormalize ==
    /\ nkind \in IdKinds
    /\ nref \in StopPointRefs
    /\ npc = "start"
    /\ nres = NoResult

\* a call of LegBoard::id
CallLegBoardId ==
    /\ npc = "start"
    /\ nkind = "board"
    /\ nres' = LegBoardId(nref)
    /\ npc' = "done"
    /\ UNCHANGED <<nkind, nref, notNormalizeVars>>

\* a call of LegAlight::id
CallLegAlightId ==
    /\ npc = "start"
    /\ nkind = "alight"
    /\ nres' = LegAlightId(nref)
    /\ npc' = "done"
    /\ UNCHANGED <<nkind, nref, notNormalizeVars>>

\* a call of LegEndpoint::id
CallLegEndpointId ==
    /\ npc = "start"
    /\ nkind = "endpoint"
    /\ nres' = LegEndpointId(nref)
    /\ npc' = "done"
    /\ UNCHANGED <<nkind, nref, notNormalizeVars>>

\* no normalisation under way
IdleNormalize ==
    /\ nkind = "none"
    /\ nref = <<>>
    /\ npc = "idle"
    /\ nres = NoResult

NextNormalize == CallLegBoardId \/ CallLegAlightId \/ CallLegEndpointId

(***************************************************************************)
(* Claims about the normaliser, checked under SpecNormalize                *)
(***************************************************************************)
\* an optional sign and then one to nine digits: an integer well inside i32
IsShortInteger(s) ==
    LET ds == IF s # <<>> /\ s[1] \in {"+", "-"} THEN Tail(s) ELSE s IN
    /\ Len(ds) \in 1..9
    /\ \A i \in 1..Len(ds) : ds[i] \in DigitChars

ShortIntegerOf(s) ==
    IF s[1] = "-" THEN -DecimalValue(Tail(s))
    ELSE IF s[1] = "+" THEN DecimalValue(Tail(s))
    ELSE DecimalValue(s)

Ref8503000 == <<"8", "5", "0", "3", "0", "0", "0">>

\* C10: a reference that is an integer is returned as that integer, never
\* as an error of the structured path, and the same for the board, alight
\* and endpoint references; normalize("8503000") = 8503000.
C10_IntegerReference ==
    npc = "done" =>
        /\ IsShortInteger(nref) => nres = ROk(ShortIntegerOf(nref))
        /\ nref = Ref8503000 => nres = ROk(8503000)
        /\ nref = NatDigits(I32Max) => nres = ROk(I32Max)

C10_Witness ==
    /\ npc = "done"
    /\ nkind = "endpoint"
    /\ nref = Ref8503000
    /\ nres = ROk(8503000)

\* the ':'-separated parts of the reference under normalisation
RefParts == SplitColon(nref)

\* the transport code of a country code, compared without regard to case
CountryKnown(p) == \E e \in IsoUicTable : e[1] = StrOf(ToLowercase(p))
CountryCode(p) == (CHOOSE e \in IsoUicTable : e[1] = StrOf(ToLowercase(p)))[2]

\* the digits of a digit string after its leading zeros
RECURSIVE StripZeros(_)
StripZeros(ds) == IF ds # <<>> /\ ds[1] = "0" THEN StripZeros(Tail(ds)) ELSE ds

\* an unsigned number of at most 99999, leading zeros allowed
IsLocalNumber(p) ==
    /\ p # <<>>
    /\ \A i \in 1..Len(p) : p[i] \in DigitChars
    /\ Len(StripZeros(p)) <= 5

LocalNumberOf(p) == DecimalValue(StripZeros(p))

RefCh07000 == <<"c", "h", ":", "1", ":", "s", "l", "o", "i", "d", ":", "0", "7", "0", "0", "0", ":", "0">>
RefCH07000 == <<"C", "H", ":", "1", ":", "s", "l", "o", "i", "d", ":", "0", "7", "0", "0", "0", ":", "0">>

\* C11: a reference of at least 4 parts whose part 0 is, in any letter case,
\* a country of the table with transport code c and whose part 3 is an
\* unsigned number n <= 99999 normalises to c * 100000 + n; "ch" with
\* "07000" gives 8507000 and "CH" gives the same.
C11_StructuredReference ==
    npc = "done" =>
        /\ Len(RefParts) >= 4 /\ CountryKnown(RefParts[1]) /\ IsLocalNumber(RefParts[4]) =>
               nres = ROk(CountryCode(RefParts[1]) * 100000 + LocalNumberOf(RefParts[4]))
        /\ nref \in {RefCh07000, RefCH07000} => nres = ROk(8507000)

\* an upper-case country code with a short number that has to be padded
C11_Witness ==
    /\ npc = "done"
    /\ Len(RefParts) >= 4
    /\ RefParts[1] = <<"C", "H">>
    /\ RefParts[4] = <<"0">>
    /\ nres = ROk(8500000)

RefABC == <<"a", ":", "b", ":", "c">>
RefXx7000 == <<"x", "x", ":", "1", ":", "s", "l", "o", "i", "d", ":", "7", "0", "0", "0", ":", "0">>

\* C12: a reference that is not an integer fails with MalformedSloid when it
\* has fewer than 4 parts, whatever part 0 is, and otherwise fails with
\* FailedToConvertIsoCode when part 0 is not a country of the table, whatever
\* part 3 is; "a:b:c" is malformed and "xx:1:sloid:7000:0" has an unknown
\* country.
C12_PartCountThenCountry ==
    npc = "done" /\ ~ParseI32(nref).ok =>
        /\ Len(RefParts) < 4 => nres = RErr(MalformedSloid(nref))
        /\ Len(RefParts) >= 4 /\ ~CountryKnown(RefParts[1]) =>
               nres = RErr(FailedToConvertIsoCode(ToLowercase(RefParts[1])))
        /\ nref = RefABC => nres = RErr(MalformedSloid(RefABC))
        /\ nref = RefXx7000 => nres = RErr(FailedToConvertIsoCode(<<"x", "x">>))

\* an unknown country in a reference of three parts: the count is what fails
C12_Witness ==
    /\ npc = "done"
    /\ Len(RefParts) = 3
    /\ RefParts[1] = <<"x", "x">>
    /\ nres = RErr(MalformedSloid(nref))

\* an optional sign and then at least one digit
IsNumericPart(p) ==
    LET ds == IF p # <<>> /\ p[1] \in {"+", "-"} THEN Tail(p) ELSE p IN
    /\ ds # <<>>
    /\ \A i \in 1..Len(ds) : ds[i] \in DigitChars

\* the case C13 is about: 4 parts or more, a known country, a part 3 that is
\* not a number
NonNumericPart3 ==
    /\ npc = "done"
    /\ Len(RefParts) >= 4
    /\ CountryKnown(RefParts[1])
    /\ ~IsNumericPart(RefParts[4])

\* C13 as stated: a non-numeric part 3 fails with MalformedSloid.
C13_NonNumericIsMalformed ==
    NonNumericPart3 => ~nres.ok /\ nres.err.kind = "MalformedSloid"

\* C13: a reference of at least 4 parts with a known country whose part 3
\* is not a number fails with the integer-parse error ParseInt, never with
\* MalformedSloid.
C13_NonNumericIsParseInt ==
    NonNumericPart3 => ~nres.ok /\ nres.err.kind = "ParseInt"

C13_Witness ==
    /\ NonNumericPart3
    /\ RefParts[4] = <<"a", "b", "c">>
    /\ nres = RErr(ParseInt("InvalidDigit"))

(***************************************************************************)
(* Wire-format records: Leg, TimedLeg, TransferLeg, ContinuousLeg          *)
(***************************************************************************)
\* DateTime<Local>::naive_local: the wall-clock reading of an instant, which
\* is the instant shifted by the local offset in force at that instant (one
\* hour, two hours once daylight saving time has begun)
LocalOffset(t) == IF t < 39600 THEN 3600 ELSE 7200
NaiveLocal(t) == t + LocalOffset(t)

\* struct ServiceDeparture / ServiceArrival
ServiceCall(timetabled, estimated) ==
    [timetabled_time |-> timetabled, estimated_time |-> estimated]

\* struct LegBoard
LegBoard(ref, name, timetabled, estimated) ==
    [stop_point_ref |-> ref, stop_point_name |-> name,
     service_departure |-> ServiceCall(timetabled, estimated)]

\* struct LegAlight
LegAlight(ref, name, timetabled, estimated) ==
    [stop_point_ref |-> ref, stop_point_name |-> name,
     service_arrival |-> ServiceCall(timetabled, estimated)]

\* struct TimedLeg
TimedLeg(board, alight, mode_name) ==
    [leg_board |-> board, leg_alight |-> alight,
     service |-> [mode |-> [name |-> mode_name]]]

\* struct LegEndpoint
LegEndpoint(ref, name) == [stop_point_ref |-> ref, name |-> name]

\* struct TransferLeg
TransferLeg(transfer_type, start, end, duration) ==
    [transfer_type |-> transfer_type, leg_start |-> start, leg_end |-> end,
     duration |-> duration]

\* struct ContinuousLeg
ContinuousLeg(personal_mode, start, end, duration) ==
    [leg_start |-> start, leg_end |-> end,
     service |-> [personal_mode |-> personal_mode], duration |-> duration]

\* struct Leg
Leg(duration, timed, transfer, continuous) ==
    [duration |-> duration, timed_leg |-> timed, transfer_leg |-> transfer,
     continuous_leg |-> continuous]

(***************************************************************************)
(* Leg resolver: LegType                                                   *)
(***************************************************************************)
\* enum LegType: a kind and the reference to the sub-shape
LegType(kind, leg) == [kind |-> kind, leg |-> leg]

\* LegType::try_from with the transfer sub-shape tested first
LegTypeTryFromTransferFirst(value) ==
    IF value.transfer_leg.some THEN ROk(LegType("Transfer", value.transfer_leg.val))
    ELSE IF value.timed_leg.some THEN ROk(LegType("Timed", value.timed_leg.val))
    ELSE IF value.continuous_leg.some
    THEN ROk(LegType("Continuous", value.continuous_leg.val))
    ELSE RErr(UnkownLegType)

\* LegType::try_from with the last arm returning a view instead of the error
LegTypeTryFromNoError(value) ==
    IF value.timed_leg.some THEN ROk(LegType("Timed", value.timed_leg.val))
    ELSE IF value.transfer_leg.some
    THEN ROk(LegType("Transfer", value.transfer_leg.val))
    ELSE ROk(LegType("Continuous", value.continuous_leg))

\* impl TryFrom<&Leg> for LegType
LegTypeTryFrom(value) ==
    IF value.timed_leg.some THEN ROk(LegType("Timed", value.timed_leg.val))
    ELSE IF value.transfer_leg.some
    THEN ROk(LegType("Transfer", value.transfer_leg.val))
    ELSE IF value.continuous_leg.some
    THEN ROk(LegType("Continuous", value.continuous_leg.val))
    ELSE RErr(UnkownLegType)

\* TimedLeg::departure_time, TimedLeg::arrival_time
TimedLegDepartureTime(tl) == tl.leg_board.service_departure.timetabled_time
TimedLegArrivalTime(tl) == tl.leg_alight.service_arrival.timetabled_time

\* the live estimate where there is one, the timetabled time otherwise
EstimatedOr(call) ==
    IF call.estimated_time.some THEN call.estimated_time.val
    ELSE call.timetabled_time

\* LegType::duration with the live estimates taken where present
LegTypeDurationEstimated(view) ==
    CASE view.kind = "Timed" ->
            EstimatedOr(view.leg.leg_alight.service_arrival)
              - EstimatedOr(view.leg.leg_board.service_departure)
      [] view.kind = "Transfer" -> view.leg.duration
      [] view.kind = "Continuous" -> view.leg.duration

\* LegType::duration
LegTypeDuration(view) ==
    CASE view.kind = "Timed" ->
            TimedLegArrivalTime(view.leg) - TimedLegDepartureTime(view.leg)
      [] view.kind = "Transfer" -> view.leg.duration
      [] view.kind = "Continuous" -> view.leg.duration

\* LegType::departure_time
LegTypeDepartureTime(view) ==
    CASE view.kind = "Timed" -> Some(NaiveLocal(TimedLegDepartureTime(view.leg)))
      [] view.kind = "Transfer" -> None
      [] view.kind = "Continuous" -> None

\* LegType::arrival_time
LegTypeArrivalTime(view) ==
    CASE view.kind = "Timed" -> Some(NaiveLocal(TimedLegArrivalTime(view.leg)))
      [] view.kind = "Transfer" -> None
      [] view.kind = "Continuous" -> None

\* LegType::departure_stop
LegTypeDepartureStop(view) ==
    CASE view.kind = "Timed" -> view.leg.leg_board.stop_point_name
      [] view.kind = "Transfer" -> view.leg.leg_start.name
      [] view.kind = "Continuous" -> view.leg.leg_start.name

\* LegType::arrival_stop reading the name of the stop the leg starts at
LegTypeArrivalStopOfStart(view) ==
    CASE view.kind = "Timed" -> view.leg.leg_board.stop_point_name
      [] view.kind = "Transfer" -> view.leg.leg_start.name
      [] view.kind = "Continuous" -> view.leg.leg_start.name

\* LegType::arrival_stop
LegTypeArrivalStop(view) ==
    CASE view.kind = "Timed" -> view.leg.leg_alight.stop_point_name
      [] view.kind = "Transfer" -> view.leg.leg_end.name
      [] view.kind = "Continuous" -> view.leg.leg_end.name

\* LegType::departure_id
LegTypeDepartureId(view) ==
    CASE view.kind = "Timed" -> LegBoardId(view.leg.leg_board.stop_point_ref)
      [] view.kind = "Transfer" -> LegEndpointId(view.leg.leg_start.stop_point_ref)
      [] view.kind = "Continuous" -> LegEndpointId(view.leg.leg_start.stop_point_ref)

\* LegType::arrival_id
LegTypeArrivalId(view) ==
    CASE view.kind = "Timed" -> LegAlightId(view.leg.leg_alight.stop_point_ref)
      [] view.kind = "Transfer" -> LegEndpointId(view.leg.leg_end.stop_point_ref)
      [] view.kind = "Continuous" -> LegEndpointId(view.leg.leg_end.stop_point_ref)

\* LegType::mode
LegTypeMode(view) ==
    CASE view.kind = "Timed" -> view.leg.service.mode.name
      [] view.kind = "Transfer" -> view.leg.transfer_type
      [] view.kind = "Continuous" -> view.leg.service.personal_mode

\* the whole accessor surface of a view
Capabilities(view) ==
    [duration |-> LegTypeDuration(view),
     departure_time |-> LegTypeDepartureTime(view),
     arrival_time |-> LegTypeArrivalTime(view),
     departure_stop |-> LegTypeDepartureStop(view),
     arrival_stop |-> LegTypeArrivalStop(view),
     departure_id |-> LegTypeDepartureId(view),
     arrival_id |-> LegTypeArrivalId(view),
     mode |-> LegTypeMode(view)]

RefBern == <<"8", "5", "0", "7", "0", "0", "0">>
RefZurich == <<"8", "5", "0", "3", "0", "0", "0">>
RefSloidOlten ==
    <<"c", "h", ":", "1", ":", "s", "l", "o", "i", "d", ":", "2", "1", "8">>
RefSloidAarau ==
    <<"C", "H", ":", "1", ":", "s", "l", "o", "i", "d", ":", "2", "1", "1", "3", ":", "1">>

\* the sub-shapes the resolver is tried on
ResolveTimedLegs ==
    { TimedLeg(LegBoard(RefBern, "Bern", bt, be),
               LegAlight(RefSloidOlten, "Olten", at, ae), "Zug") :
        bt \in {32400, 34200}, be \in {None, Some(32460)},
        at \in {33600, 43200}, ae \in {None, Some(33720)} }

ResolveTransferLegs ==
    { TransferLeg("walk", LegEndpoint(RefSloidOlten, "Olten"),
                  LegEndpoint(RefSloidAarau, "Olten, Bahnhof"), d) :
        d \in {300, -45} }

ResolveContinuousLegs ==
    { ContinuousLeg("foot", LegEndpoint(RefSloidAarau, "Aarau"),
                    LegEndpoint(RefZurich, "Zuerich HB"), d) :
        d \in {180, 600} }

Optional(S) == {None} \cup {Some(x) : x \in S}

ResolveLegs ==
    { Leg(d, timed, transfer, continuous) :
        d \in {300, 1200},
        timed \in Optional(ResolveTimedLegs),
        transfer \in Optional(ResolveTransferLegs),
        continuous \in Optional(ResolveContinuousLegs) }

InitResolve ==
    /\ rleg \in ResolveLegs
    /\ rpc = "start"
    /\ rview = NoResult
    /\ rcap = NoResult

\* LegType::try_from(leg)
Resolve ==
    /\ rpc = "start"
    /\ rview' = LegTypeTryFrom(rleg)
    /\ rpc' = IF LegTypeTryFrom(rleg).ok THEN "resolved" ELSE "done"
    /\ UNCHANGED <<rleg, rcap, notResolveVars>>

\* the accessors called on the view
ReadCapabilities ==
    /\ rpc = "resolved"
    /\ rcap' = Capabilities(rview.val)
    /\ rpc' = "done"
    /\ UNCHANGED <<rleg, rview, notResolveVars>>

\* no resolution under way
IdleResolve ==
    /\ rleg = None
    /\ rpc = "idle"
    /\ rview = NoResult
    /\ rcap = NoResult

NextResolve == Resolve \/ ReadCapabilities

(***************************************************************************)
(* Claims about the resolver, checked under SpecResolve                    *)
(***************************************************************************)
\* the sub-shapes populated on a leg record
Populated(leg) ==
    {k \in {"Timed", "Transfer", "Continuous"} :
        CASE k = "Timed" -> leg.timed_leg.some
          [] k = "Transfer" -> leg.transfer_leg.some
          [] k = "Continuous" -> leg.continuous_leg.some}

SubShape(leg, k) ==
    CASE k = "Timed" -> leg.timed_leg.val
      [] k = "Transfer" -> leg.transfer_leg.val
      [] k = "Continuous" -> leg.continuous_leg.val

Resolved == rpc \in {"resolved", "done"}

\* C4: with no sub-shape populated Resolve fails with UnknownLegKind; with
\* exactly one populated it returns the view of that kind, referring to that
\* sub-shape.
C4_ResolveNoneOrOne ==
    Resolved =>
        /\ Populated(rleg) = {} => rview = RErr(UnkownLegType)
        /\ \A k \in Populated(rleg) :
               Populated(rleg) = {k} => rview = ROk(LegType(k, SubShape(rleg, k)))

C4_Witness ==
    /\ Resolved
    /\ Populated(rleg) = {"Continuous"}
    /\ rview.ok /\ rview.val.kind = "Continuous"

\* the kind the precedence Timed > Transfer > Continuous picks
Preferred(ks) ==
    IF "Timed" \in ks THEN "Timed"
    ELSE IF "Transfer" \in ks THEN "Transfer" ELSE "Continuous"

\* C5: whenever at least one sub-shape is populated, in each of the seven
\* combinations, Resolve succeeds and picks Timed if present, else Transfer
\* if present, else Continuous.
C5_ResolvePrecedence ==
    Resolved /\ Populated(rleg) # {} =>
        rview = ROk(LegType(Preferred(Populated(rleg)),
                            SubShape(rleg, Preferred(Populated(rleg)))))

C5_Witness ==
    /\ Resolved
    /\ Populated(rleg) = {"Timed", "Transfer", "Continuous"}
    /\ rview.ok /\ rview.val.kind = "Timed"

\* C6: a Timed view's duration is the alight timetabled time minus the board
\* timetabled time and its departure and arrival times are those timetabled
\* times, whatever the live estimates are; a Transfer or Continuous view has
\* no departure or arrival time and its duration is the duration field of
\* the sub-shape, not that of the enclosing leg record.
C6_Capabilities ==
    rpc = "done" /\ rview.ok =>
        LET k == rview.val.kind
            sub == SubShape(rleg, k)
        IN  IF k = "Timed"
            THEN /\ rcap.duration =
                        sub.leg_alight.service_arrival.timetabled_time
                          - sub.leg_board.service_departure.timetabled_time
                 /\ rcap.departure_time =
                        Some(NaiveLocal(sub.leg_board.service_departure.timetabled_time))
                 /\ rcap.arrival_time =
                        Some(NaiveLocal(sub.leg_alight.service_arrival.timetabled_time))
            ELSE /\ rcap.duration = sub.duration
                 /\ rcap.departure_time = None
                 /\ rcap.arrival_time = None

\* a Timed view with both live estimates present
C6_Witness ==
    /\ rpc = "done" /\ rview.ok /\ rview.val.kind = "Timed"
    /\ rview.val.leg.leg_board.service_departure.estimated_time.some
    /\ rview.val.leg.leg_alight.service_arrival.estimated_time.some
    /\ rcap.duration = 1200

(***************************************************************************)
(* Trip simplifier: impl TryFrom<&Trip> for SimplifiedTrip                 *)
(***************************************************************************)
\* struct Trip: the fields the simplifier reads
Trip(start_time, legs) == [start_time |-> start_time, legs |-> legs]

\* SimplifiedLeg::new
SimplifiedLeg(departure_id, departure_stop, arrival_id, arrival_stop, departure_time, arrival_time, mode) ==
    [departure_id |-> departure_id, departure_stop |-> departure_stop,
     arrival_id |-> arrival_id, arrival_stop |-> arrival_stop,
     departure_time |-> departure_time, arrival_time |-> arrival_time,
     mode |-> mode]

\* struct SimplifiedTrip
SimplifiedTrip(legs) == [legs |-> legs]

\* Option::unwrap_or
UnwrapOr(opt, default) == IF opt.some THEN opt.val ELSE default

\* the closure with the arrival id computed before the departure id
LegToSimplifiedArrivalFirst(leg, prev) ==
    LET typed_leg == LegTypeTryFrom(leg) IN
    IF ~typed_leg.ok THEN RErr(typed_leg.err)
    ELSE
    LET arrival_id == LegTypeArrivalId(typed_leg.val) IN
    IF ~arrival_id.ok THEN RErr(arrival_id.err)
    ELSE
    LET departure_id == LegTypeDepartureId(typed_leg.val) IN
    IF ~departure_id.ok THEN RErr(departure_id.err)
    ELSE
    LET departure_time == UnwrapOr(LegTypeDepartureTime(typed_leg.val), prev)
        arrival_time == UnwrapOr(LegTypeArrivalTime(typed_leg.val),
                                 prev + LegTypeDuration(typed_leg.val))
    IN  ROk(SimplifiedLeg(departure_id.val, LegTypeDepartureStop(typed_leg.val),
                          arrival_id.val, LegTypeArrivalStop(typed_leg.val),
                          departure_time, arrival_time,
                          LegTypeMode(typed_leg.val)))

\* the closure with a departure never earlier than the previous arrival
LegToSimplifiedNoOverlap(leg, prev) ==
    LET typed_leg == LegTypeTryFrom(leg) IN
    IF ~typed_leg.ok THEN RErr(typed_leg.err)
    ELSE
    LET departure_id == LegTypeDepartureId(typed_leg.val) IN
    IF ~departure_id.ok THEN RErr(departure_id.err)
    ELSE
    LET arrival_id == LegTypeArrivalId(typed_leg.val) IN
    IF ~arrival_id.ok THEN RErr(arrival_id.err)
    ELSE
    LET own == UnwrapOr(LegTypeDepartureTime(typed_leg.val), prev)
        departure_time == IF own < prev THEN prev ELSE own
        arrival_time == UnwrapOr(LegTypeArrivalTime(typed_leg.val),
                                 prev + LegTypeDuration(typed_leg.val))
    IN  ROk(SimplifiedLeg(departure_id.val, LegTypeDepartureStop(typed_leg.val),
                          arrival_id.val, LegTypeArrivalStop(typed_leg.val),
                          departure_time, arrival_time,
                          LegTypeMode(typed_leg.val)))

\* the closure with every leg departing at prev_arr_time
LegToSimplifiedCarryOnly(leg, prev) ==
    LET typed_leg == LegTypeTryFrom(leg) IN
    IF ~typed_leg.ok THEN RErr(typed_leg.err)
    ELSE
    LET departure_id == LegTypeDepartureId(typed_leg.val) IN
    IF ~departure_id.ok THEN RErr(departure_id.err)
    ELSE
    LET arrival_id == LegTypeArrivalId(typed_leg.val) IN
    IF ~arrival_id.ok THEN RErr(arrival_id.err)
    ELSE
    LET departure_time == prev
        arrival_time == UnwrapOr(LegTypeArrivalTime(typed_leg.val),
                                 prev + LegTypeDuration(typed_leg.val))
    IN  ROk(SimplifiedLeg(departure_id.val, LegTypeDepartureStop(typed_leg.val),
                          arrival_id.val, LegTypeArrivalStop(typed_leg.val),
                          departure_time, arrival_time,
                          LegTypeMode(typed_leg.val)))

\* the closure of lines 726-746, applied to one leg with the current
\* prev_arr_time: the SimplifiedLeg, or the first error
LegToSimplified(leg, prev) ==
    LET typed_leg == LegTypeTryFrom(leg) IN
    IF ~typed_leg.ok THEN RErr(typed_leg.err)
    ELSE
    LET departure_id == LegTypeDepartureId(typed_leg.val) IN
    IF ~departure_id.ok THEN RErr(departure_id.err)
    ELSE
    LET arrival_id == LegTypeArrivalId(typed_leg.val) IN
    IF ~arrival_id.ok THEN RErr(arrival_id.err)
    ELSE
    LET departure_time == UnwrapOr(LegTypeDepartureTime(typed_leg.val), prev)
        arrival_time == UnwrapOr(LegTypeArrivalTime(typed_leg.val),
                                 prev + LegTypeDuration(typed_leg.val))
    IN  ROk(SimplifiedLeg(departure_id.val, LegTypeDepartureStop(typed_leg.val),
                          arrival_id.val, LegTypeArrivalStop(typed_leg.val),
                          departure_time, arrival_time,
                          LegTypeMode(typed_leg.val)))

\* line 736 with the assignment left out
NextPrevArrTimeStale(prev, arrival_time) == prev

\* line 736: prev_arr_time = arrival_time
NextPrevArrTime(prev, arrival_time) == arrival_time

\* the map and collect of lines 723-747 over the legs not yet yielded
RECURSIVE CollectLegs(_, _, _)
CollectLegs(legs, prev, collected) ==
    IF legs = <<>> THEN ROk(SimplifiedTrip(collected))
    ELSE LET leg == LegToSimplified(Head(legs), prev) IN
         IF ~leg.ok THEN RErr(leg.err)
         ELSE CollectLegs(Tail(legs), NextPrevArrTime(prev, leg.val.arrival_time),
                          Append(collected, leg.val))

\* SimplifiedTrip::try_from as one call
SimplifiedTripTryFrom(value) ==
    CollectLegs(value.legs, NaiveLocal(value.start_time), <<>>)

\* what a call returns, or the panic of unwrap() on None
Returned(v) == [panic |-> FALSE, val |-> v]
Panic == [panic |-> TRUE]

\* self.legs().first().map(f).unwrap() and self.legs().last().map(f).unwrap()
FirstUnwrap(legs, field) ==
    IF legs = <<>> THEN Panic ELSE Returned(legs[1][field])
LastUnwrap(legs, field) ==
    IF legs = <<>> THEN Panic ELSE Returned(legs[Len(legs)][field])

\* SimplifiedTrip::departure_time
SimplifiedTripDepartureTime(self) == FirstUnwrap(self.legs, "departure_time")

\* SimplifiedTrip::arrival_time
SimplifiedTripArrivalTime(self) == LastUnwrap(self.legs, "arrival_time")

\* SimplifiedTrip::duration
SimplifiedTripDuration(self) ==
    LET arrival_time == SimplifiedTripArrivalTime(self) IN
    IF arrival_time.panic THEN Panic
    ELSE LET departure_time == SimplifiedTripDepartureTime(self) IN
         IF departure_time.panic THEN Panic
         ELSE Returned(arrival_time.val - departure_time.val)

\* SimplifiedTrip::departure_id
SimplifiedTripDepartureId(self) == FirstUnwrap(self.legs, "departure_id")

\* SimplifiedTrip::arrival_id
SimplifiedTripArrivalId(self) == LastUnwrap(self.legs, "arrival_id")

\* SimplifiedTrip::departure_stop
SimplifiedTripDepartureStop(self) == FirstUnwrap(self.legs, "departure_stop")

\* SimplifiedTrip::arrival_stop
SimplifiedTripArrivalStop(self) == LastUnwrap(self.legs, "arrival_stop")

\* what each accessor of a SimplifiedTrip returns
SimplifiedTripAccessors(self) ==
    [departure_time |-> SimplifiedTripDepartureTime(self),
     arrival_time |-> SimplifiedTripArrivalTime(self),
     duration |-> SimplifiedTripDuration(self),
     departure_id |-> SimplifiedTripDepartureId(self),
     arrival_id |-> SimplifiedTripArrivalId(self),
     departure_stop |-> SimplifiedTripDepartureStop(self),
     arrival_stop |-> SimplifiedTripArrivalStop(self)]

\* Bound of the trips: the number of legs
MaxLegs == 3

RefMalformed == <<"a", ":", "b", ":", "c">>
RefUnknownIso == <<"x", "x", ":", "1", ":", "s", "l", "o", "i", "d", ":", "7", "0", "0", "0", ":", "0">>
RefNotNumeric == <<"c", "h", ":", "1", ":", "s", "l", "o", "i", "d", ":", "a", "b", "c">>

TimedBernOlten(bref, aref) ==
    TimedLeg(LegBoard(bref, "Bern", 32400, Some(32520)),
             LegAlight(aref, "Olten", 33600, None), "Zug")

TimedOltenZurich ==
    TimedLeg(LegBoard(RefSloidAarau, "Olten", 34200, None),
             LegAlight(RefZurich, "Zuerich HB", 36000, Some(36060)), "Bus")

TransferOlten(sref, d) ==
    TransferLeg("walk", LegEndpoint(sref, "Olten"),
                LegEndpoint(RefSloidAarau, "Olten, Bahnhof"), d)

ContinuousAarau(sref, eref) ==
    ContinuousLeg("foot", LegEndpoint(sref, "Aarau"),
                  LegEndpoint(eref, "Zuerich HB"), 180)

\* the leg records the trips are built from
TripLegs ==
    { Leg(1200, Some(TimedBernOlten(b, a)), None, None) :
        b \in {RefBern, RefMalformed}, a \in {RefSloidOlten, RefUnknownIso} }
    \cup { Leg(1800, Some(TimedOltenZurich), None, None) }
    \cup { Leg(300, None, Some(TransferOlten(RefSloidOlten, 300)), None),
           Leg(60, None, Some(TransferOlten(RefSloidOlten, -45)), None),
           Leg(300, None, Some(TransferOlten(RefNotNumeric, 300)), None) }
    \cup { Leg(200, None, None, Some(ContinuousAarau(RefSloidAarau, RefZurich))),
           Leg(200, None, None, Some(ContinuousAarau(RefUnknownIso, RefMalformed))) }
    \cup { Leg(0, None, None, None) }
    \cup { Leg(1800, Some(TimedOltenZurich),
               Some(TransferOlten(RefSloidOlten, 300)),
               Some(ContinuousAarau(RefSloidAarau, RefZurich))),
           Leg(300, None, Some(TransferOlten(RefSloidOlten, 300)),
               Some(ContinuousAarau(RefUnknownIso, RefMalformed))) }

StartTimes == {32400, 34200}

Trips == {Trip(t, legs) : t \in StartTimes, legs \in SeqsUpTo(TripLegs, MaxLegs)}

InitSimplify ==
    /\ trip \in Trips
    /\ spc = "start"
    /\ si = 0
    /\ prev_arr_time = 0
    /\ st = <<>>
    /\ sres = NoResult
    /\ sacc = NoResult
    /\ sfirst = None

\* line 722: let mut prev_arr_time = value.start_time.naive_local()
SimplifyStart ==
    /\ spc = "start"
    /\ prev_arr_time' = NaiveLocal(trip.start_time)
    /\ spc' = "loop"
    /\ UNCHANGED <<trip, si, st, sres, sacc, sfirst, notSimplifyVars>>

\* lines 726-747: the iterator yields the next leg and the closure maps it;
\* collect stops at the first Err, drops what it has collected and try_from
\* returns that Err
SimplifyNextLeg ==
    /\ spc = "loop"
    /\ si < Len(trip.legs)
    /\ LET leg == LegToSimplified(trip.legs[si + 1], prev_arr_time) IN
       IF leg.ok
       THEN /\ prev_arr_time' = NextPrevArrTime(prev_arr_time, leg.val.arrival_time)
            /\ st' = Append(st, leg.val)
            /\ UNCHANGED <<spc, sres>>
       ELSE /\ st' = <<>>
            /\ sres' = RErr(leg.err)
            /\ spc' = "done"
            /\ UNCHANGED prev_arr_time
    /\ si' = si + 1
    /\ UNCHANGED <<trip, sacc, sfirst, notSimplifyVars>>

\* lines 747-748: the iterator is exhausted; Ok(SimplifiedTrip { legs: st })
SimplifyCollect ==
    /\ spc = "loop"
    /\ si = Len(trip.legs)
    /\ sres' = ROk(SimplifiedTrip(st))
    /\ spc' = "done"
    /\ UNCHANGED <<trip, si, prev_arr_time, st, sacc, sfirst, notSimplifyVars>>

\* the caller reads the accessors of the SimplifiedTrip it was given
ReadSimplifiedTrip ==
    /\ spc = "done"
    /\ sres.ok
    /\ sacc' = SimplifiedTripAccessors(sres.val)
    /\ spc' = "read"
    /\ UNCHANGED <<trip, si, prev_arr_time, st, sres, sfirst, notSimplifyVars>>

\* try_from with the legs taken out of the Trip as they are mapped
SimplifyAgainOnRest ==
    /\ spc = "done"
    /\ ~sfirst.some
    /\ sfirst' = Some(sres)
    /\ trip' = [trip EXCEPT !.legs = SubSeq(@, si + 1, Len(@))]
    /\ spc' = "start"
    /\ si' = 0
    /\ prev_arr_time' = 0
    /\ st' = <<>>
    /\ sres' = NoResult
    /\ UNCHANGED <<sacc, notSimplifyVars>>

\* the caller keeps the Result and calls try_from on the same Trip again:
\* the call starts with its own prev_arr_time and its own iterator
SimplifyAgain ==
    /\ spc = "done"
    /\ ~sfirst.some
    /\ sfirst' = Some(sres)
    /\ spc' = "start"
    /\ si' = 0
    /\ prev_arr_time' = 0
    /\ st' = <<>>
    /\ sres' = NoResult
    /\ UNCHANGED <<trip, sacc, notSimplifyVars>>

\* no simplification under way
IdleSimplify ==
    /\ trip = None
    /\ spc = "idle"
    /\ si = 0
    /\ prev_arr_time = 0
    /\ st = <<>>
    /\ sres = NoResult
    /\ sacc = NoResult
    /\ sfirst = None

NextSimplify ==
    \/ SimplifyStart
    \/ SimplifyNextLeg
    \/ SimplifyCollect
    \/ ReadSimplifiedTrip
    \/ SimplifyAgain

(***************************************************************************)
(* Claims about the simplifier, checked under SpecSimplify                 *)
(***************************************************************************)
\* the kind of view leg i of the trip resolves to, "None" if it has none
KindOfLeg(i) ==
    IF Populated(trip.legs[i]) = {} THEN "None"
    ELSE Preferred(Populated(trip.legs[i]))

\* the sub-shape leg i of the trip resolves to
SubShapeOfLeg(i) == SubShape(trip.legs[i], KindOfLeg(i))

\* the arrival time carried into leg i
PrevArrivalOf(i) ==
    IF i = 1 THEN NaiveLocal(trip.start_time) ELSE st[i - 1].arrival_time

\* start 10:00; Timed(10:00, 10:20), Transfer(5 min), Timed(10:30, 11:00)
ExampleTrip ==
    Trip(32400,
         << Leg(1200, Some(TimedBernOlten(RefBern, RefSloidOlten)), None, None),
            Leg(300, None, Some(TransferOlten(RefSloidOlten, 300)), None),
            Leg(1800, Some(TimedOltenZurich), None, None) >>)

\* C1: every leg that resolves to a Transfer or Continuous view is emitted
\* with departure_time = the arrival_time emitted for the leg before it (the
\* trip's start time for the first leg) and arrival_time = that departure
\* time plus the view's duration; in the example leg 2 is 10:20/10:25.
C1_CarryForward ==
    /\ \A i \in 1..Len(st) :
           KindOfLeg(i) \in {"Transfer", "Continuous"} =>
               /\ st[i].departure_time = PrevArrivalOf(i)
               /\ st[i].arrival_time = st[i].departure_time + SubShapeOfLeg(i).duration
    /\ spc = "done" /\ sres.ok => sres.val.legs = st
    /\ spc = "done" /\ trip = ExampleTrip =>
           /\ sres.ok
           /\ sres.val.legs[2].departure_time = 37200
           /\ sres.val.legs[2].arrival_time = 37500
           /\ sres.val.legs[3].departure_time = 37800
           /\ sres.val.legs[3].arrival_time = 39600

\* an untimed leg that follows a leg which did not end at the trip's start
C1_Witness ==
    /\ spc = "done" /\ sres.ok
    /\ \E i \in 2..Len(sres.val.legs) :
           /\ KindOfLeg(i) = "Continuous"
           /\ KindOfLeg(i - 1) = "Transfer"
           /\ sres.val.legs[i].departure_time # NaiveLocal(trip.start_time)
           /\ sres.val.legs[i].departure_time = sres.val.legs[i - 1].arrival_time

\* C2: every leg that resolves to a Timed view is emitted with its own board
\* timetabled time as departure_time and its own alight timetabled time as
\* arrival_time, whatever prev_arr_time is, and prev_arr_time after that leg
\* is the Timed leg's own arrival time.
C2_TimedWins ==
    /\ \A i \in 1..Len(st) :
           KindOfLeg(i) = "Timed" =>
               /\ st[i].departure_time =
                      NaiveLocal(SubShapeOfLeg(i).leg_board.service_departure.timetabled_time)
               /\ st[i].arrival_time =
                      NaiveLocal(SubShapeOfLeg(i).leg_alight.service_arrival.timetabled_time)
    /\ spc = "loop" /\ si >= 1 /\ KindOfLeg(si) = "Timed" =>
           prev_arr_time =
               NaiveLocal(SubShapeOfLeg(si).leg_alight.service_arrival.timetabled_time)

\* a Timed leg that departs before the leg before it has arrived
C2_Witness ==
    /\ spc = "done" /\ sres.ok
    /\ \E i \in 2..Len(sres.val.legs) :
           /\ KindOfLeg(i) = "Timed"
           /\ sres.val.legs[i].departure_time < sres.val.legs[i - 1].arrival_time

\* the two stop point references of a sub-shape of kind k
DepartureRef(sub, k) ==
    IF k = "Timed" THEN sub.leg_board.stop_point_ref ELSE sub.leg_start.stop_point_ref
ArrivalRef(sub, k) ==
    IF k = "Timed" THEN sub.leg_alight.stop_point_ref ELSE sub.leg_end.stop_point_ref

\* the error leg i of the trip fails with: resolution first, then the
\* departure id, then the arrival id; None if it does not fail
LegFailure(i) ==
    LET k == KindOfLeg(i) IN
    IF k = "None" THEN Some(UnkownLegType)
    ELSE LET sub == SubShape(trip.legs[i], k)
             dep == LegEndpointId(DepartureRef(sub, k))
         IN  IF ~dep.ok THEN Some(dep.err)
             ELSE LET arr == LegEndpointId(ArrivalRef(sub, k)) IN
                  IF ~arr.ok THEN Some(arr.err) ELSE None

FailingLegs == {i \in 1..Len(trip.legs) : LegFailure(i).some}

\* the least element of a non-empty set of numbers
Least(S) == CHOOSE i \in S : \A j \in S : i <= j

\* C3: legs are processed left to right and the first failing leg ends the
\* simplification: the result is the error of the earliest failing leg
\* (resolution, then departure id, then arrival id), no SimplifiedTrip is
\* returned, and the iterator has yielded no leg after the failing one.
C3_FailFast ==
    spc = "done" =>
        LET failing == FailingLegs IN
        IF failing = {}
        THEN sres.ok /\ si = Len(trip.legs)
        ELSE /\ sres = RErr(LegFailure(Least(failing)).val)
             /\ si = Least(failing)
             /\ st = <<>>

\* a failing leg with two bad references, followed by another failing leg
C3_Witness ==
    /\ spc = "done" /\ ~sres.ok
    /\ Cardinality(FailingLegs) >= 2
    /\ Least(FailingLegs) >= 2
    /\ KindOfLeg(Least(FailingLegs)) = "Timed"
    /\ sres.err = MalformedSloid(RefMalformed)
    /\ ~LegAlightId(ArrivalRef(SubShapeOfLeg(Least(FailingLegs)), "Timed")).ok

\* C18 as stated: every SimplifiedTrip that try_from returns has at least
\* one leg, so that every accessor of it returns a value.
C18_NonEmpty ==
    /\ spc = "done" /\ sres.ok => sres.val.legs # <<>>
    /\ spc = "read" => \A f \in DOMAIN sacc : ~sacc[f].panic

\* the first leg of the SimplifiedTrip returned, when it has one
HasFirstLeg == spc = "done" /\ sres.ok /\ sres.val.legs # <<>>

\* C19 as stated: the departure_time of the first simplified leg is the
\* start time of the wire trip.
C19_FirstDepartureIsStart ==
    HasFirstLeg => sres.val.legs[1].departure_time = NaiveLocal(trip.start_time)

\* C19: the departure_time of the first simplified leg is the start time of
\* the wire trip when the first leg resolves to a Transfer or Continuous
\* view, and the board timetabled time of the leg when it resolves to a
\* Timed view, whatever the start time is; the overall departure time read
\* from the SimplifiedTrip is that of its first leg.
C19_FirstDeparture ==
    /\ HasFirstLeg =>
           sres.val.legs[1].departure_time =
               IF KindOfLeg(1) = "Timed"
               THEN NaiveLocal(SubShapeOfLeg(1).leg_board.service_departure.timetabled_time)
               ELSE NaiveLocal(trip.start_time)
    /\ spc = "read" /\ sres.val.legs # <<>> =>
           sacc.departure_time = Returned(sres.val.legs[1].departure_time)

\* a trip that starts at 10:30 and whose first leg is Timed and boards at
\* 10:00
C19_Witness ==
    /\ spc = "read"
    /\ trip.start_time = 34200
    /\ trip.legs # <<>>
    /\ KindOfLeg(1) = "Timed"
    /\ sres.val.legs[1].departure_time = 36000
    /\ sacc.departure_time = Returned(36000)

\* C20: no step of try_from changes the Trip or anything outside the call:
\* only the iterator position, prev_arr_time, the collected legs and the
\* Result are written; and a second call on the same Trip returns what the
\* first call returned.
C20_NoMutation ==
    [][ /\ trip' = trip
        /\ UNCHANGED notSimplifyVars
        /\ (spc' = "done" /\ sfirst'.some => sres' = sfirst'.val) ]_vars

\* a second call that has returned the three legs the first call returned
C20_Witness ==
    /\ spc = "done"
    /\ sfirst.some
    /\ sres.ok
    /\ Len(sres.val.legs) = 3
    /\ sres = sfirst.val
    /\ Len(trip.legs) = 3

\* the stop names and the mode label of a sub-shape of kind k
DepartureNameOf(sub, k) ==
    IF k = "Timed" THEN sub.leg_board.stop_point_name ELSE sub.leg_start.name
ArrivalNameOf(sub, k) ==
    IF k = "Timed" THEN sub.leg_alight.stop_point_name ELSE sub.leg_end.name
ModeLabelOf(sub, k) ==
    CASE k = "Timed" -> sub.service.mode.name
      [] k = "Transfer" -> sub.transfer_type
      [] k = "Continuous" -> sub.service.personal_mode

\* C24: when try_from succeeds the output has as many legs as the trip, in
\* the same order, the i-th carrying the departure and arrival ids, the
\* departure and arrival stop names and the mode label of the view the i-th
\* leg resolves to; after k legs prev_arr_time is the arrival_time of the
\* k-th leg emitted.
C24_LegsPreserved ==
    /\ spc = "done" /\ sres.ok =>
           /\ Len(sres.val.legs) = Len(trip.legs)
           /\ \A i \in 1..Len(trip.legs) :
                  LET k == KindOfLeg(i)
                      sub == SubShapeOfLeg(i)
                      out == sres.val.legs[i]
                  IN  /\ ROk(out.departure_id) = LegEndpointId(DepartureRef(sub, k))
                      /\ ROk(out.arrival_id) = LegEndpointId(ArrivalRef(sub, k))
                      /\ out.departure_stop = DepartureNameOf(sub, k)
                      /\ out.arrival_stop = ArrivalNameOf(sub, k)
                      /\ out.mode = ModeLabelOf(sub, k)
    /\ spc = "loop" /\ si >= 1 =>
           /\ Len(st) = si
           /\ prev_arr_time = st[si].arrival_time

\* a trip of a Timed, a Transfer and a Continuous leg, simplified
C24_Witness ==
    /\ spc = "done" /\ sres.ok
    /\ Len(trip.legs) = 3
    /\ KindOfLeg(1) = "Timed" /\ KindOfLeg(2) = "Transfer" /\ KindOfLeg(3) = "Continuous"
    /\ sres.val.legs[1].mode = "Zug"
    /\ sres.val.legs[2].mode = "walk"
    /\ sres.val.legs[3].mode = "foot"
    /\ sres.val.legs[3].departure_id = 8502113
    /\ sres.val.legs[3].arrival_stop = "Zuerich HB"

(***************************************************************************)
(* Query helpers of OJP: trips, place_results, trips_departing_after,      *)
(* trip_departing_after, error, and the collecting tail of find_location   *)
(***************************************************************************)
\* struct TripResult
TripResult(id, t) == [id |-> id, trip |-> t]

\* struct ErrorCondition
ErrorCondition(trip_problem_type) == [trip_problem_type |-> trip_problem_type]

\* struct OJPTripDelivery: the fields the helpers read
OJPTripDelivery(trip_results, error_condition) ==
    [trip_results |-> trip_results, error_condition |-> error_condition]

\* struct StopPlace: the fields the helpers read
StopPlace(stop_place_ref, stop_place_name) ==
    [stop_place_ref |-> stop_place_ref, stop_place_name |-> stop_place_name]

\* struct Place: the fields the helpers read
Place(stop_place, name) == [stop_place |-> stop_place, name |-> name]

\* struct PlaceResult: the fields the helpers read
PlaceResult(place) == [place |-> place]

\* struct OJPLocationInformationDelivery: the fields the helpers read
OJPLocationInformationDelivery(place_results) == [place_results |-> place_results]

\* struct OJP / OJPResponse / ServiceDelivery: the two deliveries read
OJP(ojp_trip_delivery, ojp_location_information_delivery) ==
    [ojp_response |->
        [service_delivery |->
            [ojp_trip_delivery |-> ojp_trip_delivery,
             ojp_location_information_delivery |-> ojp_location_information_delivery]]]

PlaceResultsNotFound == OjpErr("PlaceResultsNotFound", <<>>)

\* OJP::trips
OJPTrips(self) ==
    LET d == self.ojp_response.service_delivery.ojp_trip_delivery IN
    IF ~d.some THEN None ELSE Some(d.val.trip_results)

\* OJP::place_results with an empty list where there is no delivery
OJPPlaceResultsOrEmpty(self) ==
    LET d == self.ojp_response.service_delivery.ojp_location_information_delivery IN
    IF ~d.some THEN Some(<<>>) ELSE Some(d.val.place_results)

\* OJP::place_results
OJPPlaceResults(self) ==
    LET d == self.ojp_response.service_delivery.ojp_location_information_delivery IN
    IF ~d.some THEN None ELSE Some(d.val.place_results)

\* OJP::trips_departing_after with > in place of >=
OJPTripsDepartingAfterStrict(self, date_time) ==
    LET trips == OJPTrips(self) IN
    IF ~trips.some THEN None
    ELSE LET res == SelectSeq(trips.val,
                              LAMBDA t : NaiveLocal(t.trip.start_time) > date_time)
         IN  IF res = <<>> THEN None ELSE Some(res)

\* OJP::trips_departing_after
OJPTripsDepartingAfter(self, date_time) ==
    LET trips == OJPTrips(self) IN
    IF ~trips.some THEN None
    ELSE LET res == SelectSeq(trips.val,
                              LAMBDA t : NaiveLocal(t.trip.start_time) >= date_time)
         IN  IF res = <<>> THEN None ELSE Some(res)

\* OJP::trip_departing_after reading trips() instead of the filtered list
OJPTripDepartingAfterUnfiltered(self, date_time, index) ==
    LET trips == OJPTrips(self) IN
    IF ~trips.some THEN None
    ELSE IF index >= Len(trips.val) THEN None
    ELSE Some(trips.val[index + 1].trip)

\* OJP::trip_departing_after; index counts from 0
OJPTripDepartingAfter(self, date_time, index) ==
    LET trips == OJPTripsDepartingAfter(self, date_time) IN
    IF ~trips.some THEN None
    ELSE IF index >= Len(trips.val) THEN None
    ELSE Some(trips.val[index + 1].trip)

\* OJP::error blind to the error condition when the delivery has trips
OJPErrorUnlessTrips(self) ==
    LET d == self.ojp_response.service_delivery.ojp_trip_delivery IN
    IF ~d.some THEN None
    ELSE IF ~d.val.error_condition.some THEN None
    ELSE IF d.val.trip_results # <<>> THEN None
    ELSE Some(d.val.error_condition.val.trip_problem_type)

\* OJP::error
OJPError(self) ==
    LET d == self.ojp_response.service_delivery.ojp_trip_delivery IN
    IF ~d.some THEN None
    ELSE IF ~d.val.error_condition.some THEN None
    ELSE Some(d.val.error_condition.val.trip_problem_type)

\* PlaceResult::stop_place_ref
PlaceResultStopPlaceRef(self) ==
    IF ~self.place.stop_place.some THEN None
    ELSE Some(self.place.stop_place.val.stop_place_ref)

\* Iterator::filter_map(|pr| pr.stop_place_ref()).collect()
RECURSIVE FilterMapStopPlaceRef(_)
FilterMapStopPlaceRef(prs) ==
    IF prs = <<>> THEN <<>>
    ELSE LET r == PlaceResultStopPlaceRef(Head(prs)) IN
         (IF r.some THEN <<r.val>> ELSE <<>>) \o FilterMapStopPlaceRef(Tail(prs))

\* find_location from the parsed response on (lines 219-226)
FindLocationCollect(self) ==
    LET prs == OJPPlaceResults(self) IN
    IF ~prs.some THEN RErr(PlaceResultsNotFound)
    ELSE ROk(FilterMapStopPlaceRef(prs.val))

\* Bounds of the responses: the number of trip results and of place results
MaxTrips == 3
MaxPlaces == 3

\* start 10:30; Transfer(5 min), Continuous(3 min)
WalkTrip ==
    Trip(34200,
         << Leg(300, None, Some(TransferOlten(RefSloidOlten, 300)), None),
            Leg(200, None, None, Some(ContinuousAarau(RefSloidAarau, RefZurich))) >>)

\* start 11:00; a leg with no sub-shape
UnresolvableTrip == Trip(36000, << Leg(0, None, None, None) >>)

\* start 10:30; no Leg element
EmptyTrip == Trip(34200, <<>>)

QueryTrips == {ExampleTrip, WalkTrip, UnresolvableTrip, EmptyTrip}

\* the TripResult elements of a response, with their ids in document order
TripResultsOf(ts) == [i \in 1..Len(ts) |-> TripResult(i, ts[i])]

TripProblem == "TRIP_NOTRIPFOUND"

TripDeliveries ==
    { OJPTripDelivery(TripResultsOf(ts), e) :
        ts \in SeqsUpTo(QueryTrips, MaxTrips),
        e \in {None, Some(ErrorCondition(TripProblem))} }

Places ==
    { Place(Some(StopPlace(8507000, "Bern")), "Bern"),
      Place(Some(StopPlace(8503000, "Zuerich HB")), "Zuerich HB"),
      Place(None, "Bern (Gemeinde)") }

LocationDeliveries ==
    { OJPLocationInformationDelivery([i \in 1..Len(ps) |-> PlaceResult(ps[i])]) :
        ps \in SeqsUpTo(Places, MaxPlaces) }

\* a trip response, a location response, or a response with neither delivery
Responses ==
    {OJP(Some(d), None) : d \in TripDeliveries}
    \cup {OJP(None, Some(d)) : d \in LocationDeliveries}
    \cup {OJP(None, None)}

\* the date_time arguments: 10:00, 10:15, 10:30 and 11:10 local time
QueryTimes == {36000, 36900, 37800, 40200}

QueryOps ==
    {"trips", "place_results", "error", "find_location",
     "trips_departing_after", "trip_departing_after"}

InitQuery ==
    /\ ojp \in Responses
    /\ qop \in QueryOps
    /\ qdate \in IF qop \in {"trips_departing_after", "trip_departing_after"}
                 THEN QueryTimes ELSE {0}
    /\ qindex \in IF qop = "trip_departing_after" THEN 0..MaxTrips ELSE {0}
    /\ qpc = "start"
    /\ qres = NoResult

\* a call of OJP::trips
CallTrips ==
    /\ qpc = "start" /\ qop = "trips"
    /\ qres' = OJPTrips(ojp)
    /\ qpc' = "done"
    /\ UNCHANGED <<ojp, qop, qdate, qindex, notQueryVars>>

\* a call of OJP::place_results
CallPlaceResults ==
    /\ qpc = "start" /\ qop = "place_results"
    /\ qres' = OJPPlaceResults(ojp)
    /\ qpc' = "done"
    /\ UNCHANGED <<ojp, qop, qdate, qindex, notQueryVars>>

\* a call of OJP::error
CallError ==
    /\ qpc = "start" /\ qop = "error"
    /\ qres' = OJPError(ojp)
    /\ qpc' = "done"
    /\ UNCHANGED <<ojp, qop, qdate, qindex, notQueryVars>>

\* a call of OJP::trips_departing_after
CallTripsDepartingAfter ==
    /\ qpc = "start" /\ qop = "trips_departing_after"
    /\ qres' = OJPTripsDepartingAfter(ojp, qdate)
    /\ qpc' = "done"
    /\ UNCHANGED <<ojp, qop, qdate, qindex, notQueryVars>>

\* a call of OJP::trip_departing_after
CallTripDepartingAfter ==
    /\ qpc = "start" /\ qop = "trip_departing_after"
    /\ qres' = OJPTripDepartingAfter(ojp, qdate, qindex)
    /\ qpc' = "done"
    /\ UNCHANGED <<ojp, qop, qdate, qindex, notQueryVars>>

\* find_location once the response is parsed
CallFindLocationCollect ==
    /\ qpc = "start" /\ qop = "find_location"
    /\ qres' = FindLocationCollect(ojp)
    /\ qpc' = "done"
    /\ UNCHANGED <<ojp, qop, qdate, qindex, notQueryVars>>

\* no query under way
IdleQuery ==
    /\ ojp = None
    /\ qop = "none"
    /\ qdate = 0
    /\ qindex = 0
    /\ qpc = "idle"
    /\ qres = NoResult

NextQuery ==
    \/ CallTrips
    \/ CallPlaceResults
    \/ CallError
    \/ CallTripsDepartingAfter
    \/ CallTripDepartingAfter
    \/ CallFindLocationCollect

(***************************************************************************)
(* Claims about the query helpers, checked under SpecQuery                 *)
(***************************************************************************)
\* the trip delivery and the TripResult elements of the response
TripDeliveryOf == ojp.ojp_response.service_delivery.ojp_trip_delivery
LocationDeliveryOf == ojp.ojp_response.service_delivery.ojp_location_information_delivery
TripResultsIn == IF TripDeliveryOf.some THEN TripDeliveryOf.val.trip_results ELSE <<>>

\* the positions of the trips that start at date_time or later
Departing == {i \in 1..Len(TripResultsIn) :
                 NaiveLocal(TripResultsIn[i].trip.start_time) >= qdate}

\* the k-th smallest element of a set of numbers
Kth(S, k) == CHOOSE i \in S : Cardinality({j \in S : j < i}) = k - 1

\* C14: trips_departing_after(t) returns exactly the trips of trips() whose
\* start time is >= t, a trip starting at t included, in response order; it
\* returns None, never an empty list, when no trip qualifies or when there
\* is no trip delivery.
C14_TripsDepartingAfter ==
    qpc = "done" /\ qop = "trips_departing_after" =>
        IF Departing = {}
        THEN qres = None
        ELSE /\ qres.some
             /\ Len(qres.val) = Cardinality(Departing)
             /\ \A k \in 1..Len(qres.val) :
                    qres.val[k] = TripResultsIn[Kth(Departing, k)]

\* a trip that starts exactly at t is kept, one before it dropped, and two
\* kept trips stay in response order
C14_Witness ==
    /\ qpc = "done" /\ qop = "trips_departing_after"
    /\ qdate = 37800
    /\ Len(TripResultsIn) = 3
    /\ Departing = {1, 3}
    /\ NaiveLocal(TripResultsIn[1].trip.start_time) = 37800
    /\ qres.some /\ Len(qres.val) = 2
    /\ qres.val[1].id = 1 /\ qres.val[2].id = 3

\* C15: trip_departing_after(t, index) returns the index-th trip, counted
\* from 0, of trips_departing_after(t) when that list is present and index
\* is below its length, and None in every other case.
C15_TripDepartingAfter ==
    qpc = "done" /\ qop = "trip_departing_after" =>
        IF qindex < Cardinality(Departing)
        THEN qres = Some(TripResultsIn[Kth(Departing, qindex + 1)].trip)
        ELSE qres = None

\* index 1 picks the second departing trip, which is not the second trip
C15_Witness ==
    /\ qpc = "done" /\ qop = "trip_departing_after"
    /\ qindex = 1
    /\ Departing = {2, 3}
    /\ TripResultsIn[2].trip # TripResultsIn[3].trip
    /\ qres = Some(TripResultsIn[3].trip)

\* the place results of the response
PlaceResultsIn ==
    IF LocationDeliveryOf.some THEN LocationDeliveryOf.val.place_results ELSE <<>>

\* the positions of the place results that have a stop place
WithStopPlace == {i \in 1..Len(PlaceResultsIn) : PlaceResultsIn[i].place.stop_place.some}

FailedToFindTrip(dep_id, arr_id, msg) == OjpErr("FailedToFindTrip", <<dep_id, arr_id, msg>>)
FailedToParseXml == OjpErr("FailedToParseXml", <<>>)
UnableToGetApiToken == OjpErr("UnableToGetApiToken", <<>>)
RequestBuilderError(e) == OjpErr("RequestBuilderError", <<e>>)

\* format!("No trip departig after {date_time} was found.")
NoTripMsg(date_time) == <<"No trip departig after ", date_time, " was found.">>

\* OJP::try_from(&str): what the deserialiser makes of the response text
OJPTryFrom(text) == IF text.parses THEN ROk(text.ojp) ELSE RErr(FailedToParseXml)

\* the response texts: one that does not parse, and one per trip response
ResponseTexts ==
    {[parses |-> FALSE, ojp |-> None]}
    \cup {[parses |-> TRUE, ojp |-> OJP(Some(d), None)] : d \in TripDeliveries}
    \cup {[parses |-> TRUE, ojp |-> OJP(None, None)]}

\* what the HTTP exchange of send_request gives
HttpOutcomes == {RErr("ReqwestError")} \cup {ROk(text) : text \in ResponseTexts}

InitFindTrip ==
    /\ from_id = 8507000
    /\ to_id = 8503000
    /\ fdate \in QueryTimes
    /\ number_results \in {0, 1}
    /\ token_env \in {None, Some("key")}
    /\ http \in HttpOutcomes
    /\ fpc = "start"
    /\ fojp = None
    /\ fmsg = None
    /\ ref_trip = None
    /\ ffiles = {}
    /\ fres = NoResult

\* lines 289-298: the token is read, the request is built and sent
FindTripRequest ==
    /\ fpc = "start"
    /\ IF ~token_env.some
       THEN fres' = RErr(UnableToGetApiToken) /\ fpc' = "done"
       ELSE IF number_results = 0
       THEN fres' = RErr(RequestBuilderError("InvalidNumberResults")) /\ fpc' = "done"
       ELSE IF ~http.ok
       THEN fres' = RErr(RequestBuilderError(http.err)) /\ fpc' = "done"
       ELSE fpc' = "received" /\ UNCHANGED fres
    /\ UNCHANGED <<from_id, to_id, fdate, number_results, token_env, http,
                   fojp, fmsg, ref_trip, ffiles, notFindTripVars>>

\* lines 300-306: the response is parsed; a text that does not parse is
\* written to debug.xml
FindTripParse ==
    /\ fpc = "received"
    /\ LET parsed == OJPTryFrom(http.val) IN
       IF parsed.ok
       THEN /\ fojp' = Some(parsed.val)
            /\ fpc' = "parsed"
            /\ UNCHANGED <<ffiles, fres>>
       ELSE /\ ffiles' = ffiles \cup {"debug.xml"}
            /\ fres' = RErr(parsed.err)
            /\ fpc' = "done"
            /\ UNCHANGED fojp
    /\ UNCHANGED <<from_id, to_id, fdate, number_results, token_env, http,
                   fmsg, ref_trip, notFindTripVars>>

\* lines 306-315: an error condition of the delivery ends the search
FindTripCheckError ==
    /\ fpc = "parsed"
    /\ fmsg' = OJPError(fojp.val)
    /\ IF fmsg'.some
       THEN /\ fres' = RErr(FailedToFindTrip(from_id, to_id, <<fmsg'.val>>))
            /\ fpc' = "done"
       ELSE /\ fpc' = "checked"
            /\ UNCHANGED fres
    /\ UNCHANGED <<from_id, to_id, fdate, number_results, token_env, http,
                   fojp, ref_trip, ffiles, notFindTripVars>>

\* lines 317-324: the first trip departing at date_time or later
FindTripSelect ==
    /\ fpc = "checked"
    /\ ref_trip' = OJPTripDepartingAfter(fojp.val, fdate, 0)
    /\ IF ref_trip'.some
       THEN /\ fpc' = "selected"
            /\ UNCHANGED fres
       ELSE /\ fres' = RErr(FailedToFindTrip(from_id, to_id, NoTripMsg(fdate)))
            /\ fpc' = "done"
    /\ UNCHANGED <<from_id, to_id, fdate, number_results, token_env, http,
                   fojp, fmsg, ffiles, notFindTripVars>>

\* lines 326-331: the trip is simplified; on an error the response is
\* written to debug_simplified.xml
FindTripSimplify ==
    /\ fpc = "selected"
    /\ fres' = SimplifiedTripTryFrom(ref_trip.val)
    /\ ffiles' = IF fres'.ok THEN ffiles ELSE ffiles \cup {"debug_simplified.xml"}
    /\ fpc' = "done"
    /\ UNCHANGED <<from_id, to_id, fdate, number_results, token_env, http,
                   fojp, fmsg, ref_trip, notFindTripVars>>

\* no find_trip under way
IdleFindTrip ==
    /\ from_id = 0
    /\ to_id = 0
    /\ fdate = 0
    /\ number_results = 0
    /\ token_env = None
    /\ http = NoResult
    /\ fpc = "idle"
    /\ fojp = None
    /\ fmsg = None
    /\ ref_trip = None
    /\ ffiles = {}
    /\ fres = NoResult

NextFindTrip ==
    \/ FindTripRequest
    \/ FindTripParse
    \/ FindTripCheckError
    \/ FindTripSelect
    \/ FindTripSimplify

(***************************************************************************)
(* Claims about find_trip, checked under SpecFindTrip                      *)
(***************************************************************************)
\* the response was received and parsed
Parsed == fojp.some

\* the trip delivery of the parsed response
FoundDelivery == fojp.val.ojp_response.service_delivery.ojp_trip_delivery

\* the parsed response has a trip delivery with an error condition
HasErrorCondition ==
    /\ Parsed
    /\ FoundDelivery.some
    /\ FoundDelivery.val.error_condition.some

\* C17: when the response parses and its trip delivery carries an error
\* condition, find_trip returns FailedToFindTrip with the searched from id,
\* to id and the problem text of the server, and no trip is selected or
\* simplified, even when the response has trips departing after date_time;
\* error() returns a message exactly when a trip delivery with an error
\* condition exists.
C17_ErrorConditionWins ==
    /\ fpc = "done" /\ HasErrorCondition =>
           /\ ~fres.ok
           /\ fres.err.kind = "FailedToFindTrip"
           /\ fres.err.arg =
                  <<from_id, to_id, <<FoundDelivery.val.error_condition.val.trip_problem_type>>>>
           /\ ref_trip = None
           /\ ffiles = {}
    /\ fpc \in {"checked", "selected"} => ~HasErrorCondition
    /\ Parsed /\ fpc # "parsed" => (fmsg.some <=> HasErrorCondition)

\* an error condition next to a trip that departs after date_time and
\* that could be simplified
C17_Witness ==
    /\ fpc = "done" /\ HasErrorCondition
    /\ fdate = 36000
    /\ FoundDelivery.val.trip_results # <<>>
    /\ FoundDelivery.val.trip_results[1].trip = ExampleTrip
    /\ fres = RErr(FailedToFindTrip(8507000, 8503000, <<TripProblem>>))

(***************************************************************************)
(* Several SimplifiedTrip::try_from calls under way at once, one per task, *)
(* their steps interleaved                                                 *)
(***************************************************************************)
\* Bound of the concurrent calls: the number of tasks
MaxTasks == 2

Tasks == 1..MaxTasks

\* start 10:00; a Timed leg, then a Transfer leg with a reference that is
\* not numeric
FailingTrip ==
    Trip(32400,
         << Leg(1200, Some(TimedBernOlten(RefBern, RefSloidOlten)), None, None),
            Leg(300, None, Some(TransferOlten(RefNotNumeric, 300)), None) >>)

TaskTrips == QueryTrips \cup {FailingTrip}

InitConcurrent ==
    /\ ctrip \in [Tasks -> TaskTrips]
    /\ cpc = [t \in Tasks |-> "start"]
    /\ ci = [t \in Tasks |-> 0]
    /\ cprev = [t \in Tasks |-> 0]
    /\ cst = [t \in Tasks |-> <<>>]
    /\ cres = [t \in Tasks |-> NoResult]

\* line 722 in task t
TaskStart(t) ==
    /\ cpc[t] = "start"
    /\ cprev' = [cprev EXCEPT ![t] = NaiveLocal(ctrip[t].start_time)]
    /\ cpc' = [cpc EXCEPT ![t] = "loop"]
    /\ UNCHANGED <<ctrip, ci, cst, cres, notConcurrentVars>>

\* lines 726-747 in task t, with prev_arr_time one variable of all tasks
TaskNextLegSharedPrev(t) ==
    /\ cpc[t] = "loop"
    /\ ci[t] < Len(ctrip[t].legs)
    /\ LET leg == LegToSimplified(ctrip[t].legs[ci[t] + 1], cprev[1]) IN
       IF leg.ok
       THEN /\ cprev' = [cprev EXCEPT ![1] = NextPrevArrTime(cprev[1], leg.val.arrival_time)]
            /\ cst' = [cst EXCEPT ![t] = Append(@, leg.val)]
            /\ UNCHANGED <<cpc, cres>>
       ELSE /\ cst' = [cst EXCEPT ![t] = <<>>]
            /\ cres' = [cres EXCEPT ![t] = RErr(leg.err)]
            /\ cpc' = [cpc EXCEPT ![t] = "done"]
            /\ UNCHANGED cprev
    /\ ci' = [ci EXCEPT ![t] = @ + 1]
    /\ UNCHANGED <<ctrip, notConcurrentVars>>

\* lines 726-747 in task t: the next leg of its trip, with its own
\* prev_arr_time
TaskNextLeg(t) ==
    /\ cpc[t] = "loop"
    /\ ci[t] < Len(ctrip[t].legs)
    /\ LET leg == LegToSimplified(ctrip[t].legs[ci[t] + 1], cprev[t]) IN
       IF leg.ok
       THEN /\ cprev' = [cprev EXCEPT ![t] = NextPrevArrTime(cprev[t], leg.val.arrival_time)]
            /\ cst' = [cst EXCEPT ![t] = Append(@, leg.val)]
            /\ UNCHANGED <<cpc, cres>>
       ELSE /\ cst' = [cst EXCEPT ![t] = <<>>]
            /\ cres' = [cres EXCEPT ![t] = RErr(leg.err)]
            /\ cpc' = [cpc EXCEPT ![t] = "done"]
            /\ UNCHANGED cprev
    /\ ci' = [ci EXCEPT ![t] = @ + 1]
    /\ UNCHANGED <<ctrip, notConcurrentVars>>

\* lines 747-748 in task t
TaskCollect(t) ==
    /\ cpc[t] = "loop"
    /\ ci[t] = Len(ctrip[t].legs)
    /\ cres' = [cres EXCEPT ![t] = ROk(SimplifiedTrip(cst[t]))]
    /\ cpc' = [cpc EXCEPT ![t] = "done"]
    /\ UNCHANGED <<ctrip, ci, cprev, cst, notConcurrentVars>>

\* no concurrent simplification under way
IdleConcurrent ==
    /\ ctrip = <<>>
    /\ cpc = <<>>
    /\ ci = <<>>
    /\ cprev = <<>>
    /\ cst = <<>>
    /\ cres = <<>>

NextConcurrent ==
    \/ \E t \in Tasks : TaskStart(t)
    \/ \E t \in Tasks : TaskNextLeg(t)
    \/ \E t \in Tasks : TaskCollect(t)

(***************************************************************************)
(* Claims about concurrent simplification, checked under SpecConcurrent    *)
(***************************************************************************)
\* C21: with one task per trip and the steps of the tasks interleaved in
\* any order, every task returns what try_from returns for its trip alone,
\* and until then has collected the legs try_from collects for the legs it
\* has been through.
C21_TasksIndependent ==
    \A t \in Tasks :
        /\ cpc[t] = "done" => cres[t] = SimplifiedTripTryFrom(ctrip[t])
        /\ cpc[t] = "loop" =>
               ROk(SimplifiedTrip(cst[t])) =
                   CollectLegs(SubSeq(ctrip[t].legs, 1, ci[t]),
                               NaiveLocal(ctrip[t].start_time), <<>>)

\* task 1 returns the example trip while task 2, on another trip, is
\* between two of its legs
C21_Witness ==
    /\ cpc[1] = "done"
    /\ ctrip[1] = ExampleTrip
    /\ ctrip[2] = WalkTrip
    /\ cpc[2] = "loop" /\ ci[2] = 1
    /\ cres[1].ok
    /\ cres[1].val.legs[2].departure_time = 37200
    /\ cres[1].val.legs[2].arrival_time = 37500

(***************************************************************************)
(* OJP::find_trips: one find_trip future per pair, joined by join_all      *)
(***************************************************************************)
\* Bound of find_trips: the longest departures and arrivals slices
MaxPairs == 2

\* the ids of the first n stops of a slice
StopIds(base, n) == [i \in 1..n |-> base + i]

\* the pairs departures.iter().zip(arrivals.iter()) yields
ZipLen(ds, as) == IF Len(ds) <= Len(as) THEN Len(ds) ELSE Len(as)

\* what one search gets from the server: no answer, a text that does not
\* parse, an error condition, the example trip, a trip that does not
\* simplify, no trip at all
SearchResponses ==
    { RErr("ReqwestError"),
      ROk([parses |-> FALSE, ojp |-> None]),
      ROk([parses |-> TRUE,
           ojp |-> OJP(Some(OJPTripDelivery(<<>>, Some(ErrorCondition(TripProblem)))), None)]),
      ROk([parses |-> TRUE,
           ojp |-> OJP(Some(OJPTripDelivery(TripResultsOf(<<ExampleTrip>>), None)), None)]),
      ROk([parses |-> TRUE,
           ojp |-> OJP(Some(OJPTripDelivery(TripResultsOf(<<FailingTrip>>), None)), None)]),
      ROk([parses |-> TRUE, ojp |-> OJP(Some(OJPTripDelivery(<<>>, None)), None)]) }

\* a step of find_trip that writes no file
NoFile(v) == [res |-> Returned(v), file |-> None]

\* inspect_err of lines 300-305 and 326-331: an Err is written to a debug
\* file, and File::create(..).unwrap() panics when that fails
InspectErr(v, file, can_write) ==
    IF v.ok THEN NoFile(v)
    ELSE IF can_write THEN [res |-> Returned(v), file |-> Some(file)]
    ELSE [res |-> Panic, file |-> None]

\* OJP::find_trip as one call: what it returns or its panic, and the debug
\* file it writes
FindTripCall(dep_id, arr_id, date_time, n, tok, response, can_write) ==
    IF ~tok.some THEN NoFile(RErr(UnableToGetApiToken))
    ELSE IF n = 0 THEN NoFile(RErr(RequestBuilderError("InvalidNumberResults")))
    ELSE IF ~response.ok THEN NoFile(RErr(RequestBuilderError(response.err)))
    ELSE LET parsed == OJPTryFrom(response.val) IN
         IF ~parsed.ok THEN InspectErr(parsed, "debug.xml", can_write)
         ELSE LET problem == OJPError(parsed.val) IN
              IF problem.some
              THEN NoFile(RErr(FailedToFindTrip(dep_id, arr_id, <<problem.val>>)))
              ELSE LET found == OJPTripDepartingAfter(parsed.val, date_time, 0) IN
                   IF ~found.some
                   THEN NoFile(RErr(FailedToFindTrip(dep_id, arr_id, NoTripMsg(date_time))))
                   ELSE InspectErr(SimplifiedTripTryFrom(found.val),
                                   "debug_simplified.xml", can_write)

\* the find_trip of search i
SearchCall(i) ==
    FindTripCall(departures[i], arrivals[i], jdate, jnumber, jtoken, jhttp[i], jwritable)

Searches == 1..ZipLen(departures, arrivals)

InitFindTrips ==
    /\ departures \in {StopIds(8507000, n) : n \in 0..MaxPairs}
    /\ arrivals \in {StopIds(8503000, n) : n \in 0..MaxPairs}
    /\ jdate = 36000
    /\ jnumber \in {0, 1}
    /\ jtoken \in {None, Some("key")}
    /\ jhttp \in [Searches -> SearchResponses]
    /\ jwritable \in BOOLEAN
    /\ jpc = [i \in Searches |-> "start"]
    /\ jout = [i \in Searches |-> NoResult]
    /\ jorder = <<>>
    /\ jfiles = {}
    /\ jres = NoResult

\* search i ends with outcome c: its Result goes to its own slot, or its
\* panic unwinds through join_all and find_trips
SearchEnds(i, c) ==
    IF c.res.panic
    THEN /\ jres' = Panic
         /\ UNCHANGED <<jpc, jout, jorder, jfiles>>
    ELSE /\ jout' = [jout EXCEPT ![i] = c.res.val]
         /\ jpc' = [jpc EXCEPT ![i] = "done"]
         /\ jorder' = Append(jorder, i)
         /\ jfiles' = IF c.file.some THEN jfiles \cup {c.file.val} ELSE jfiles
         /\ UNCHANGED jres

\* lines 289-297 in search i, up to the await of send_request: without a
\* token or a request the search ends here
SearchSend(i) ==
    /\ jres = NoResult
    /\ jpc[i] = "start"
    /\ IF ~jtoken.some \/ jnumber = 0
       THEN SearchEnds(i, SearchCall(i))
       ELSE /\ jpc' = [jpc EXCEPT ![i] = "sent"]
            /\ UNCHANGED <<jout, jorder, jfiles, jres>>
    /\ UNCHANGED <<departures, arrivals, jdate, jnumber, jtoken, jhttp, jwritable,
                   notFindTripsVars>>

\* lines 297-331 in search i, from the end of its HTTP exchange
SearchReceive(i) ==
    /\ jres = NoResult
    /\ jpc[i] = "sent"
    /\ SearchEnds(i, SearchCall(i))
    /\ UNCHANGED <<departures, arrivals, jdate, jnumber, jtoken, jhttp, jwritable,
                   notFindTripsVars>>

\* join_all handing out the outputs in the order the futures completed
JoinAllCompletionOrder ==
    /\ jres = NoResult
    /\ \A i \in Searches : jpc[i] = "done"
    /\ jres' = Returned([k \in Searches |-> jout[jorder[k]]])
    /\ UNCHANGED <<departures, arrivals, jdate, jnumber, jtoken, jhttp, jwritable,
                   jpc, jout, jorder, jfiles, notFindTripsVars>>

\* line 276: join_all(ref_trips).await is ready when every future is, with
\* the outputs in the order of the futures
JoinAll ==
    /\ jres = NoResult
    /\ \A i \in Searches : jpc[i] = "done"
    /\ jres' = Returned([i \in Searches |-> jout[i]])
    /\ UNCHANGED <<departures, arrivals, jdate, jnumber, jtoken, jhttp, jwritable,
                   jpc, jout, jorder, jfiles, notFindTripsVars>>

\* no find_trips under way
IdleFindTrips ==
    /\ departures = <<>>
    /\ arrivals = <<>>
    /\ jdate = 0
    /\ jnumber = 0
    /\ jtoken = None
    /\ jhttp = <<>>
    /\ jwritable = FALSE
    /\ jpc = <<>>
    /\ jout = <<>>
    /\ jorder = <<>>
    /\ jfiles = {}
    /\ jres = NoResult

NextFindTrips ==
    \/ \E i \in Searches : SearchSend(i)
    \/ \E i \in Searches : SearchReceive(i)
    \/ JoinAll

(***************************************************************************)
(* Claims about find_trips, checked under SpecFindTrips                    *)
(***************************************************************************)
\* find_trips is over: it returned, or a panic unwound through it
FindTripsOver == jres # NoResult

\* the Vec returned has one Result per pair, in the order of the pairs, each
\* what find_trip gives for that pair whatever the other searches gave
OutcomePerPair ==
    /\ Len(jres.val) = ZipLen(departures, arrivals)
    /\ \A i \in Searches :
           jres.val[i] =
               FindTripCall(departures[i], arrivals[i], jdate, jnumber, jtoken,
                            jhttp[i], TRUE).res.val

\* C22: find_trips returns one outcome per (departure, arrival) pair in
\* input order, a failed search in its own slot only, whatever the order in
\* which the searches complete; no failure of one search aborts the others.
C22_OutcomePerPair ==
    FindTripsOver => ~jres.panic /\ OutcomePerPair

\* find_trips returned: every slot holds what its own search gives
FindTripsReturned ==
    FindTripsOver /\ ~jres.panic => OutcomePerPair

\* the second search completed first, with an error; the first returned the
\* example trip
FindTripsReturnedWitness ==
    /\ FindTripsOver /\ ~jres.panic
    /\ jorder = <<2, 1>>
    /\ Len(jres.val) = 2
    /\ jres.val[1].ok
    /\ ~jres.val[2].ok
    /\ jres.val[2].err.kind = "FailedToParseXml"

(***************************************************************************)
(* SimplifiedTrip::approx_equal                                            *)
(***************************************************************************)
\* an f64 tolerance that is the fraction num / den, den > 0
Tol(num, den) == [num |-> num, den |-> den]

\* f64::abs on a whole number of seconds
Abs(x) == IF x < 0 THEN -x ELSE x

\* x / y > tolerance with NaN > tolerance taken for true
ExceedsOrNaN(x, y, tol) ==
    IF y > 0 THEN x * tol.den > tol.num * y
    ELSE IF y < 0 THEN (-x) * tol.den > tol.num * (-y)
    ELSE x >= 0

\* x / y > tolerance in f64, x and y whole numbers of seconds: x / 0.0 is
\* +inf, -inf or NaN, and only +inf is greater than the tolerance
Exceeds(x, y, tol) ==
    IF y > 0 THEN x * tol.den > tol.num * y
    ELSE IF y < 0 THEN (-x) * tol.den > tol.num * (-y)
    ELSE x > 0

\* SimplifiedTrip::approx_equal; the accessors panic on a trip without legs
ApproxEqual(self, rhs, tol) ==
    LET s == SimplifiedTripAccessors(self)
        r == SimplifiedTripAccessors(rhs)
    IN  IF s.departure_id.panic \/ r.departure_id.panic THEN Panic
        ELSE IF \/ s.departure_id.val # r.departure_id.val
                \/ s.arrival_id.val # r.arrival_id.val
        THEN Returned(FALSE)
        ELSE IF Exceeds(Abs(s.duration.val - r.duration.val), r.duration.val, tol)
        THEN Returned(FALSE)
        ELSE IF \/ Exceeds(s.departure_time.val - r.departure_time.val, s.duration.val, tol)
                \/ Exceeds(s.arrival_time.val - r.arrival_time.val, s.duration.val, tol)
        THEN Returned(FALSE)
        ELSE Returned(TRUE)

\* a one-leg trip between two stops
OneLeg(departure_id, arrival_id, departure_time, arrival_time) ==
    SimplifiedTrip(<< SimplifiedLeg(departure_id, "from", arrival_id, "to",
                                    departure_time, arrival_time, "rail") >>)

\* two legs through Olten
TwoLegs(departure_time, arrival_time) ==
    SimplifiedTrip(<< SimplifiedLeg(8507000, "Bern", 8500218, "Olten",
                                    departure_time, departure_time + 1200, "rail"),
                      SimplifiedLeg(8500218, "Olten", 8503000, "Zuerich HB",
                                    arrival_time - 1800, arrival_time, "rail") >>)

\* the trips compared: 10:00 or 10:01 to 10:00, 11:00, 11:00:50 or 11:02,
\* and the trip without legs
ApproxTrips ==
    {SimplifiedTrip(<<>>)}
    \cup {OneLeg(8507000, a, d, t) :
            a \in {8503000, 8500218}, d \in {36000, 36060}, t \in {36000, 39600, 39650, 39720}}
    \cup {TwoLegs(d, t) : d \in {36000, 36060}, t \in {39600, 39650}}

Tolerances == {Tol(1, 100), Tol(2, 100), Tol(0, 1)}

InitApproxEqual ==
    /\ aself \in ApproxTrips
    /\ arhs \in ApproxTrips
    /\ tolerance \in Tolerances
    /\ apc = "start"
    /\ ares = NoResult

ApproxEqualCall ==
    /\ apc = "start"
    /\ ares' = ApproxEqual(aself, arhs, tolerance)
    /\ apc' = "done"
    /\ UNCHANGED <<aself, arhs, tolerance, notApproxEqualVars>>

\* no approx_equal under way
IdleApproxEqual ==
    /\ aself = None
    /\ arhs = None
    /\ tolerance = None
    /\ apc = "idle"
    /\ ares = NoResult

NextApproxEqual == ApproxEqualCall

(***************************************************************************)
(* Claims about approx_equal, checked under SpecApproxEqual                *)
(***************************************************************************)
\* the quantities the comparison is stated in, for trips with legs
DurationOf(t) == t.legs[Len(t.legs)].arrival_time - t.legs[1].departure_time
DepartureOffset == aself.legs[1].departure_time - arhs.legs[1].departure_time
ArrivalOffset ==
    aself.legs[Len(aself.legs)].arrival_time - arhs.legs[Len(arhs.legs)].arrival_time
SameEndpoints ==
    /\ aself.legs[1].departure_id = arhs.legs[1].departure_id
    /\ aself.legs[Len(aself.legs)].arrival_id = arhs.legs[Len(arhs.legs)].arrival_id
BothHaveLegs == aself.legs # <<>> /\ arhs.legs # <<>>

\* the quotient x / y exists and is at most the tolerance
RatioAtMost(x, y, tol) ==
    /\ y # 0
    /\ IF y > 0 THEN x * tol.den <= tol.num * y ELSE x * tol.den >= tol.num * y

\* the quotient x / y is not greater than the tolerance; over a zero y it
\* is greater exactly when x is positive
NotGreater(x, y, tol) ==
    IF y = 0 THEN x <= 0 ELSE RatioAtMost(x, y, tol)

\* b lasting 3600 s, a lasting 3650 s, same endpoints, same departure
ExampleA == OneLeg(8507000, 8503000, 36000, 39650)
ExampleB == OneLeg(8507000, 8503000, 36000, 39600)

RequestTypes == {"LocationInformation", "Trip", "StopEvent", "Unknown"}

\* RequestBuilder::new
RequestBuilderNew(date_time) ==
    [date_time |-> date_time, token |-> None, request_type |-> "Unknown",
     number_results |-> 0, from |-> None, to |-> None, name |-> None,
     requestor_ref |-> <<>>]

\* the setters
SetFrom(self, from) == [self EXCEPT !.from = Some(from)]
SetTo(self, to) == [self EXCEPT !.to = Some(to)]
SetToken(self, token) == [self EXCEPT !.token = Some(token)]
SetRequestType(self, request_type) == [self EXCEPT !.request_type = request_type]
SetNumberResults(self, n) == [self EXCEPT !.number_results = n]
SetName(self, name) == [self EXCEPT !.name = Some(name)]
SetRequestorRef(self, requestor_ref) == [self EXCEPT !.requestor_ref = requestor_ref]

\* the two request texts, by what is formatted into them
LocationInformationBody(self) ==
    [request |-> "OJPLocationInformationRequest", requestor_ref |-> self.requestor_ref,
     name |-> self.name.val, number_results |-> self.number_results]
TripBody(self) ==
    [request |-> "OJPTripRequest", requestor_ref |-> self.requestor_ref,
     from |-> self.from.val, to |-> self.to.val, date_time |-> self.date_time,
     number_results |-> self.number_results]

\* RequestBuilder::try_request_body
TryRequestBody(self) ==
    IF self.request_type = "Unknown" THEN RErr("UnknownRequestType")
    ELSE IF self.request_type = "LocationInformation"
    THEN IF self.number_results = 0 THEN RErr("InvalidNumberResults")
         ELSE IF ~self.name.some THEN RErr("MissingLocationName")
         ELSE ROk(LocationInformationBody(self))
    ELSE IF self.request_type = "StopEvent" THEN RErr("EventsRequestTypeNotImplemented")
    ELSE IF self.number_results = 0 THEN RErr("InvalidNumberResults")
         ELSE IF ~self.from.some /\ ~self.to.some THEN RErr("MissingFromAndToId")
         ELSE IF self.from.some /\ ~self.to.some THEN RErr("MissingToId")
         ELSE IF ~self.from.some /\ self.to.some THEN RErr("MissingFromId")
         ELSE ROk(TripBody(self))

\* build_request looking for the token before the body
BuildRequestTokenFirst(self) ==
    IF ~self.token.some THEN RErr("MissingAuthToken")
    ELSE LET id_request == TryRequestBody(self) IN
         IF ~id_request.ok THEN id_request
         ELSE ROk([bearer_auth |-> self.token.val, body |-> id_request.val])

\* RequestBuilder::build_request
BuildRequest(self) ==
    LET id_request == TryRequestBody(self) IN
    IF ~id_request.ok THEN id_request
    ELSE IF ~self.token.some THEN RErr("MissingAuthToken")
    ELSE ROk([bearer_auth |-> self.token.val, body |-> id_request.val])

\* a method call on the builder: the method and, under its name, the argument
Call(op, arg) == [op |-> op, arg |-> [m \in {op} |-> arg]]

InitRequestBuilder ==
    /\ builder = RequestBuilderNew(36000)
    /\ bcall = Call("new", 36000)
    /\ bpc = "building"
    /\ bres = NoResult

CallSetFrom ==
    /\ bpc = "building"
    /\ \E from \in {8507000, 8503000} :
           builder' = SetFrom(builder, from) /\ bcall' = Call("set_from", from)
    /\ UNCHANGED <<bpc, bres, notRequestBuilderVars>>

CallSetTo ==
    /\ bpc = "building"
    /\ \E to \in {8507000, 8503000} :
           builder' = SetTo(builder, to) /\ bcall' = Call("set_to", to)
    /\ UNCHANGED <<bpc, bres, notRequestBuilderVars>>

CallSetToken ==
    /\ bpc = "building"
    /\ \E token \in {"key", "other"} :
           builder' = SetToken(builder, token) /\ bcall' = Call("set_token", token)
    /\ UNCHANGED <<bpc, bres, notRequestBuilderVars>>

CallSetRequestType ==
    /\ bpc = "building"
    /\ \E request_type \in RequestTypes :
           /\ builder' = SetRequestType(builder, request_type)
           /\ bcall' = Call("set_request_type", request_type)
    /\ UNCHANGED <<bpc, bres, notRequestBuilderVars>>

CallSetNumberResults ==
    /\ bpc = "building"
    /\ \E n \in {0, 1, 3} :
           builder' = SetNumberResults(builder, n) /\ bcall' = Call("set_number_results", n)
    /\ UNCHANGED <<bpc, bres, notRequestBuilderVars>>

CallSetName ==
    /\ bpc = "building"
    /\ \E name \in {"Bern", "Olten"} :
           builder' = SetName(builder, name) /\ bcall' = Call("set_name", name)
    /\ UNCHANGED <<bpc, bres, notRequestBuilderVars>>

CallSetRequestorRef ==
    /\ bpc = "building"
    /\ \E requestor_ref \in {"OJP-HRDF"} :
           /\ builder' = SetRequestorRef(builder, requestor_ref)
           /\ bcall' = Call("set_requestor_ref", requestor_ref)
    /\ UNCHANGED <<bpc, bres, notRequestBuilderVars>>

\* build_request consumes the builder
CallBuildRequest ==
    /\ bpc = "building"
    /\ bres' = BuildRequest(builder)
    /\ bcall' = Call("build_request", <<>>)
    /\ bpc' = "done"
    /\ UNCHANGED <<builder, notRequestBuilderVars>>

\* no builder
IdleRequestBuilder ==
    /\ builder = None
    /\ bcall = None
    /\ bpc = "idle"
    /\ bres = NoResult

NextRequestBuilder ==
    \/ CallSetFrom
    \/ CallSetTo
    \/ CallSetToken
    \/ CallSetRequestType
    \/ CallSetNumberResults
    \/ CallSetName
    \/ CallSetRequestorRef
    \/ CallBuildRequest

(***************************************************************************)
(* Claims about the RequestBuilder, checked under SpecRequestBuilder       *)
(***************************************************************************)
\* the field a setter writes, and what it writes there
FieldOf(op) ==
    CASE op = "set_from" -> "from"
      [] op = "set_to" -> "to"
      [] op = "set_token" -> "token"
      [] op = "set_request_type" -> "request_type"
      [] op = "set_number_results" -> "number_results"
      [] op = "set_name" -> "name"
      [] op = "set_requestor_ref" -> "requestor_ref"
Written(call) ==
    IF call.op \in {"set_from", "set_to", "set_token", "set_name"}
    THEN Some(call.arg[call.op]) ELSE call.arg[call.op]

\* the checks in the order claimed: whether each fails on b, and its error
Checks(b) ==
    << <<b.request_type = "Unknown", "UnknownRequestType">>,
       <<b.request_type = "StopEvent", "EventsRequestTypeNotImplemented">>,
       <<b.number_results = 0, "InvalidNumberResults">>,
       <<b.request_type = "LocationInformation" /\ ~b.name.some, "MissingLocationName">>,
       <<b.request_type = "Trip" /\ ~b.from.some /\ ~b.to.some, "MissingFromAndToId">>,
       <<b.request_type = "Trip" /\ ~b.to.some, "MissingToId">>,
       <<b.request_type = "Trip" /\ ~b.from.some, "MissingFromId">>,
       <<~b.token.some, "MissingAuthToken">> >>
Failing(b) == {k \in 1..Len(Checks(b)) : Checks(b)[k][1]}

\* C25: each setter writes its argument to its own field and leaves the
\* others as they were, so that the last write of a field wins; and
\* build_request returns the error of the first failing check of the
\* claimed order, and a request exactly when no check fails.
C25_FirstFailingCheck ==
    [][/\ bpc' = "building" =>
              /\ builder'[FieldOf(bcall'.op)] = Written(bcall')
              /\ \A f \in DOMAIN builder \ {FieldOf(bcall'.op)} : builder'[f] = builder[f]
       /\ bpc' = "done" =>
              /\ builder' = builder
              /\ bres'.ok <=> Failing(builder) = {}
              /\ ~bres'.ok => bres'.err = Checks(builder)[Least(Failing(builder))][2]]_vars

\* a Trip request without the to id and without a token: the body error is
\* returned, the token is not looked at
C25_Witness ==
    /\ bpc = "done"
    /\ builder.request_type = "Trip"
    /\ builder.number_results = 3
    /\ builder.from.some /\ ~builder.to.some
    /\ ~builder.token.some
    /\ bres = RErr("MissingToId")

(***************************************************************************)
(* duration::deserialize at the width of i64: total_seconds and the digit  *)
(* groups are whole numbers written in decimal, least digit first, so that *)
(* the values around 2^63 can be told apart                                *)
(***************************************************************************)
\* a natural number from its decimal digits, most significant first
RECURSIVE Norm(_)
Norm(a) == IF a # <<>> /\ a[Len(a)] = 0 THEN Norm(SubSeq(a, 1, Len(a) - 1)) ELSE a
Nat10(ds) == Norm([i \in 1..Len(ds) |-> DigitVal(ds[Len(ds) + 1 - i])])

\* a * k + carry, for a small k
RECURSIVE MulCarry(_, _, _)
MulCarry(a, k, carry) ==
    IF a = <<>>
    THEN IF carry = 0 THEN <<>> ELSE <<carry % 10>> \o MulCarry(<<>>, k, carry \div 10)
    ELSE <<(a[1] * k + carry) % 10>> \o MulCarry(Tail(a), k, (a[1] * k + carry) \div 10)

\* a + b + carry
RECURSIVE AddCarry(_, _, _)
AddCarry(a, b, carry) ==
    IF a = <<>> /\ b = <<>> THEN (IF carry = 0 THEN <<>> ELSE <<carry>>)
    ELSE LET x == IF a = <<>> THEN 0 ELSE a[1]
             y == IF b = <<>> THEN 0 ELSE b[1]
         IN  <<(x + y + carry) % 10>>
             \o AddCarry(IF a = <<>> THEN a ELSE Tail(a), IF b = <<>> THEN b ELSE Tail(b),
                         (x + y + carry) \div 10)

\* a - b - borrow, for a >= b
RECURSIVE SubBorrow(_, _, _)
SubBorrow(a, b, borrow) ==
    IF a = <<>> THEN <<>>
    ELSE LET y == (IF b = <<>> THEN 0 ELSE b[1]) + borrow IN
         <<(a[1] + 10 - y) % 10>>
         \o SubBorrow(Tail(a), IF b = <<>> THEN b ELSE Tail(b), IF a[1] < y THEN 1 ELSE 0)

\* a < b
RECURSIVE NatLess(_, _)
NatLess(a, b) ==
    IF Len(a) # Len(b) THEN Len(a) < Len(b)
    ELSE IF a = <<>> THEN FALSE
    ELSE IF a[Len(a)] # b[Len(b)] THEN a[Len(a)] < b[Len(b)]
    ELSE NatLess(SubSeq(a, 1, Len(a) - 1), SubSeq(b, 1, Len(b) - 1))

NatMul(a, k) == Norm(MulCarry(a, k, 0))
NatAdd(a, b) == Norm(AddCarry(a, b, 0))
NatSub(a, b) == Norm(SubBorrow(a, b, 0))

\* a whole number: its sign and its magnitude
Whole(neg, mag) == [neg |-> neg /\ mag # <<>>, mag |-> mag]
WholeAdd(x, y) ==
    IF x.neg = y.neg THEN Whole(x.neg, NatAdd(x.mag, y.mag))
    ELSE IF NatLess(x.mag, y.mag) THEN Whole(y.neg, NatSub(y.mag, x.mag))
    ELSE Whole(x.neg, NatSub(x.mag, y.mag))
WholeMul(x, k) == Whole(x.neg, NatMul(x.mag, k))

Two63 == Nat10(<<"9","2","2","3","3","7","2","0","3","6","8","5","4","7","7","5","8","0","8">>)
Two64 == NatMul(Two63, 2)

\* i64::MIN <= x <= i64::MAX
InI64(x) == IF x.neg THEN ~NatLess(Two63, x.mag) ELSE NatLess(x.mag, Two63)

\* a mod m by subtraction, for a < 10 * m
RECURSIVE ReduceBy(_, _)
ReduceBy(a, m) == IF NatLess(a, m) THEN a ELSE ReduceBy(NatSub(a, m), m)

\* the i64 a wrapping operation leaves for the whole number x, |x| < 2^77
Wrapping(x) ==
    LET r3 == ReduceBy(x.mag, NatMul(Two64, 1000))
        r2 == ReduceBy(r3, NatMul(Two64, 100))
        r1 == ReduceBy(r2, NatMul(Two64, 10))
        r0 == ReduceBy(r1, Two64)
        r == IF x.neg /\ r0 # <<>> THEN NatSub(Two64, r0) ELSE r0
    IN  IF NatLess(r, Two63) THEN Whole(FALSE, r) ELSE Whole(TRUE, NatSub(Two64, r))

\* an i64 operation whose exact result is x: the result, or with overflow
\* the panic of a build with overflow checks and the wrapped value of one
\* without
Overflowing(x, checks) ==
    IF InI64(x) THEN Returned(x) ELSE IF checks THEN Panic ELSE Returned(Wrapping(x))

\* i64::from_str on a non-empty string of ASCII digits: the value, or an
\* error beyond i64::MAX
I64FromStrChecked(ds) ==
    IF InI64(Whole(FALSE, Nat10(ds))) THEN ROk(Whole(FALSE, Nat10(ds))) ELSE RErr("PosOverflow")

\* chrono's Duration::seconds: it panics beyond i64::MAX / 1000 seconds
\* either way
MaxDurationSeconds == Nat10(<<"9","2","2","3","3","7","2","0","3","6","8","5","4","7","7","5">>)
DurationSeconds(secs) ==
    IF NatLess(MaxDurationSeconds, secs.mag) THEN Panic ELSE Returned(DOk(secs))

\* total_seconds += sign * value * unit
AddGroup(total, sign, value, unit, checks) ==
    LET product == Overflowing(WholeMul(Whole(sign < 0, value.mag), unit), checks) IN
    IF product.panic THEN Panic
    ELSE Overflowing(WholeAdd(total, product.val), checks)

\* the digit groups decoded: the numbers at the edges of i64 and of Duration
WideNumerals ==
    { <<"1">>,
      <<"9","2","2","3","3","7","2","0","3","6","8","5","4","7","7","5">>,
      <<"9","2","2","3","3","7","2","0","3","6","8","5","4","7","7","6">>,
      <<"2","5","6","2","0","4","7","7","8","8","0","1","5","2","1","5">>,
      <<"2","5","6","2","0","4","7","7","8","8","0","1","5","2","1","6">>,
      <<"9","2","2","3","3","7","2","0","3","6","8","5","4","7","7","5","8","0","7">>,
      <<"9","2","2","3","3","7","2","0","3","6","8","5","4","7","7","5","8","0","8">> }

WideGroups == {n \o <<u>> : n \in WideNumerals, u \in {"H", "S"}}

\* one or two groups after PT or -PT
WideTexts ==
    {p \o g : p \in {TextPT, TextMinusPT}, g \in WideGroups}
    \cup {p \o g \o h : p \in {TextPT, TextMinusPT}, g \in WideGroups, h \in WideGroups}

InitDecodeWide ==
    /\ wtext \in WideTexts
    /\ wchecks \in BOOLEAN
    /\ wpc = "start"
    /\ wrest = <<>>
    /\ wsign = 1
    /\ wtotal = Whole(FALSE, <<>>)
    /\ wcur = <<>>
    /\ wres = NoResult

\* lines 123-135: the prefix match and the locals' initial values
WidePrefix ==
    /\ wpc = "start"
    /\ IF ~SplitSign(wtext).some
       THEN /\ wpc' = "done"
            /\ wres' = Returned(DErr("prefix"))
            /\ UNCHANGED <<wrest, wsign>>
       ELSE /\ wpc' = "loop"
            /\ wsign' = SplitSign(wtext).val.sign
            /\ wrest' = SplitSign(wtext).val.rest
            /\ UNCHANGED wres
    /\ UNCHANGED <<wtext, wchecks, wtotal, wcur, notDecodeWideVars>>

\* lines 137-156: one iteration of the loop over s.chars()
WideChar ==
    /\ wpc = "loop"
    /\ wrest # <<>>
    /\ LET c == Head(wrest) IN
       IF IsAsciiDigit(c)
       THEN /\ wcur' = Append(wcur, c)
            /\ wrest' = Tail(wrest)
            /\ UNCHANGED <<wpc, wtotal, wres>>
       ELSE IF wcur = <<>>
       THEN /\ wpc' = "done"
            /\ wres' = Returned(DErr("no_number"))
            /\ UNCHANGED <<wrest, wtotal, wcur>>
       ELSE IF ~I64FromStrChecked(wcur).ok
       THEN /\ wpc' = "done"
            /\ wres' = Returned(DErr("number"))
            /\ UNCHANGED <<wrest, wtotal, wcur>>
       ELSE IF ~UnitSeconds(c).some
       THEN /\ wpc' = "done"
            /\ wres' = Returned(DErr("unit"))
            /\ UNCHANGED <<wrest, wtotal, wcur>>
       ELSE LET sum == AddGroup(wtotal, wsign, I64FromStrChecked(wcur).val,
                                UnitSeconds(c).val, wchecks) IN
            IF sum.panic
            THEN /\ wpc' = "done"
                 /\ wres' = Panic
                 /\ UNCHANGED <<wrest, wtotal, wcur>>
            ELSE /\ wtotal' = sum.val
                 /\ wcur' = <<>>
                 /\ wrest' = Tail(wrest)
                 /\ UNCHANGED <<wpc, wres>>
    /\ UNCHANGED <<wtext, wchecks, wsign, notDecodeWideVars>>

\* lines 158-164: after the loop
WideEnd ==
    /\ wpc = "loop"
    /\ wrest = <<>>
    /\ wpc' = "done"
    /\ wres' = IF EndsWithNumber(wcur)
               THEN Returned(DErr("trailing_number"))
               ELSE DurationSeconds(wtotal)
    /\ UNCHANGED <<wtext, wchecks, wrest, wsign, wtotal, wcur, notDecodeWideVars>>

\* no decoding under way
IdleDecodeWide ==
    /\ wtext = <<>>
    /\ wchecks = FALSE
    /\ wpc = "idle"
    /\ wrest = <<>>
    /\ wsign = 1
    /\ wtotal = None
    /\ wcur = <<>>
    /\ wres = NoResult

NextDecodeWide == WidePrefix \/ WideChar \/ WideEnd

(***************************************************************************)
(* Claims about the width of the decoded numbers, checked under            *)
(* SpecDecodeWide                                                          *)
(***************************************************************************)
\* C26: for every text Decode returns a Duration or a format error and
\* never aborts, also when a group times its unit factor or the running sum
\* is beyond i64 or beyond the range of a Duration.
C26_NeverAborts ==
    wpc = "done" => ~wres.panic

(***************************************************************************)
(* The specifications                                                      *)
(***************************************************************************)
\* one text to decode
StartDecode == InitDecode /\ IdleNormalize /\ IdleResolve /\ IdleSimplify /\ IdleQuery /\ IdleFindTrip /\ IdleConcurrent /\ IdleFindTrips /\ IdleApproxEqual /\ IdleRequestBuilder /\ IdleDecodeWide

\* one reference to normalise
StartNormalize == InitNormalize /\ IdleDecode /\ IdleResolve /\ IdleSimplify /\ IdleQuery /\ IdleFindTrip /\ IdleConcurrent /\ IdleFindTrips /\ IdleApproxEqual /\ IdleRequestBuilder /\ IdleDecodeWide

\* one leg record to resolve
StartResolve == InitResolve /\ IdleDecode /\ IdleNormalize /\ IdleSimplify /\ IdleQuery /\ IdleFindTrip /\ IdleConcurrent /\ IdleFindTrips /\ IdleApproxEqual /\ IdleRequestBuilder /\ IdleDecodeWide

\* one trip to simplify
StartSimplify == InitSimplify /\ IdleDecode /\ IdleNormalize /\ IdleResolve /\ IdleQuery /\ IdleFindTrip /\ IdleConcurrent /\ IdleFindTrips /\ IdleApproxEqual /\ IdleRequestBuilder /\ IdleDecodeWide

\* one query helper called on one parsed response
StartQuery == InitQuery /\ IdleDecode /\ IdleNormalize /\ IdleResolve /\ IdleSimplify /\ IdleFindTrip /\ IdleConcurrent /\ IdleFindTrips /\ IdleApproxEqual /\ IdleRequestBuilder /\ IdleDecodeWide

\* one call of find_trip
StartFindTrip == InitFindTrip /\ IdleDecode /\ IdleNormalize /\ IdleResolve /\ IdleSimplify /\ IdleQuery /\ IdleConcurrent /\ IdleFindTrips /\ IdleApproxEqual /\ IdleRequestBuilder /\ IdleDecodeWide

\* one try_from call per task
StartConcurrent == InitConcurrent /\ IdleDecode /\ IdleNormalize /\ IdleResolve /\ IdleSimplify /\ IdleQuery /\ IdleFindTrip /\ IdleFindTrips /\ IdleApproxEqual /\ IdleRequestBuilder /\ IdleDecodeWide

\* one find_trips call
StartFindTrips == InitFindTrips /\ IdleDecode /\ IdleNormalize /\ IdleResolve /\ IdleSimplify /\ IdleQuery /\ IdleFindTrip /\ IdleConcurrent /\ IdleApproxEqual /\ IdleRequestBuilder /\ IdleDecodeWide

\* one approx_equal call
StartApproxEqual == InitApproxEqual /\ IdleDecode /\ IdleNormalize /\ IdleResolve /\ IdleSimplify /\ IdleQuery /\ IdleFindTrip /\ IdleConcurrent /\ IdleFindTrips /\ IdleRequestBuilder /\ IdleDecodeWide

\* one RequestBuilder
StartRequestBuilder == InitRequestBuilder /\ IdleDecode /\ IdleNormalize /\ IdleResolve /\ IdleSimplify /\ IdleQuery /\ IdleFindTrip /\ IdleConcurrent /\ IdleFindTrips /\ IdleApproxEqual /\ IdleDecodeWide

\* one deserialize call with i64 arithmetic
StartDecodeWide == InitDecodeWide /\ IdleDecode /\ IdleNormalize /\ IdleResolve /\ IdleSimplify /\ IdleQuery /\ IdleFindTrip /\ IdleConcurrent /\ IdleFindTrips /\ IdleApproxEqual /\ IdleRequestBuilder

SpecDecode == StartDecode /\ [][NextDecode]_vars

SpecNormalize == StartNormalize /\ [][NextNormalize]_vars

SpecResolve == StartResolve /\ [][NextResolve]_vars

SpecSimplify == StartSimplify /\ [][NextSimplify]_vars

SpecQuery == StartQuery /\ [][NextQuery]_vars

SpecFindTrip == StartFindTrip /\ [][NextFindTrip]_vars

SpecConcurrent == StartConcurrent /\ [][NextConcurrent]_vars

SpecFindTrips == StartFindTrips /\ [][NextFindTrips]_vars

SpecApproxEqual == StartApproxEqual /\ [][NextApproxEqual]_vars

SpecRequestBuilder == StartRequestBuilder /\ [][NextRequestBuilder]_vars

SpecDecodeWide == StartDecodeWide /\ [][NextDecodeWide]_vars

Init == StartDecode \/ StartNormalize \/ StartResolve \/ StartSimplify \/ StartQuery \/ StartFindTrip \/ StartConcurrent \/ StartFindTrips \/ StartApproxEqual \/ StartRequestBuilder \/ StartDecodeWide

Next == NextDecode \/ NextNormalize \/ NextResolve \/ NextSimplify \/ NextQuery \/ NextFindTrip \/ NextConcurrent \/ NextFindTrips \/ NextApproxEqual \/ NextRequestBuilder \/ NextDecodeWide

Spec == Init /\ [][Next]_vars

=============================================================================
